---- MODULE Spec2Model ----
(***************************************************************************)
(* Model of the spotifyrs authorisation core:                              *)
(*   - AccessToken::new   (callback validation + token exchange)           *)
(*   - AccessToken::refresh / is_valid_for                                 *)
(*   - Client::request    (just-in-time refresh behind a bearer request)   *)
(*   - utils::request     (outcome classification of one HTTP call)        *)
(*   - AuthorisationBuilder (setters, authorise_url) and the flow from the *)
(*     builder through the session store to the token exchange             *)
(*   - utils::store       (SessionStore / LocalStore), the scope strings   *)
(*     stored with a builder                                               *)
(* Strings that are compared by prefix (URLs) are sequences of one-char    *)
(* strings; opaque secrets (tokens, ids) are plain strings.                *)
(***************************************************************************)
EXTENDS Integers, Sequences, FiniteSets, TLC

VARIABLES
    now,          \* the clock: whole seconds since the time origin
    state,        \* the persisted AuthorisationBuilder handed to AccessToken::new
    callback_url, \* the callback URL handed to AccessToken::new (None before the call)
    new_pc,       \* position of the AccessToken::new future
    new_result,   \* value returned by AccessToken::new (None while it has not returned)
    token_posts,  \* forms POSTed to the token endpoint, in order
    client,       \* the Client: [token |-> AccessToken]
    req_pc,       \* position of the Client::request future
    req_duration, \* `duration` argument of the Client::request call in progress
    req_self,     \* `self` of AccessToken::refresh: the credential moved out of the Client
    req_result,   \* value returned by Client::request (None while it has not returned)
    api_requests, \* API requests sent by Client::request, in order
    req_prior,    \* ghost: the credential the Client held when Client::request was called
    req_trace,    \* ghost: what the Client::request call in progress has done so far
    calls,        \* ghost: number of Client::request calls made
    builder,      \* the AuthorisationBuilder under construction
    builder_call, \* ghost: the last builder operation, its argument and its result
    ops,          \* ghost: number of builder operations made
    authorise_pc, \* the authorise_url future suspended at the digest: its scope
                  \* argument (None when no call is in flight)
    store,        \* the browser's Storage: serialized key |-> serialized value
    store_map,    \* ghost: the map the store is compared with, key |-> value
    store_call,   \* ghost: the last store operation and what it returned
    hashmap,      \* a HashMap<String, String> given the same store operations
    timer,        \* the browser's timeout behind a delayed function (None before it is set)
    delayed,      \* the DelayedFn / TrackedDelayedFn handle (None before it is created)
    fn_calls,     \* how often the delayed function was called
    stop_call,    \* ghost: the last stop() of the handle (None before the first)
    form,         \* the AuthorisationForm component: auth_url and loading
    computations, \* the new_url futures in flight, each with the builder it made
    changes       \* how often the client id input was changed

vars == <<now, state, callback_url, new_pc, new_result, token_posts, client,
          req_pc, req_duration, req_self, req_result, api_requests, req_prior,
          req_trace, calls, builder, builder_call, ops, authorise_pc, store,
          store_map, store_call, hashmap, timer, delayed, fn_calls, stop_call,
          form, computations, changes>>

newVars == <<state, callback_url, new_pc, new_result>>
reqVars == <<client, req_pc, req_duration, req_self, req_result, api_requests,
             req_prior, req_trace, calls>>
builderVars == <<builder, builder_call, ops, authorise_pc>>
storeVars == <<store, store_map, store_call, hashmap>>
delayVars == <<timer, delayed, fn_calls, stop_call>>
formVars == <<form, computations, changes>>

(***************************************************************************)
(* Bounds of the model                                                     *)
(***************************************************************************)
MaxPairs == 3      \* query parameters of an enumerated callback URL
MaxWait == 1       \* seconds the token request of AccessToken::new can take
MaxTime == 4       \* the clock of a Client stops advancing here
MaxCalls == 2      \* Client::request calls in one behaviour
MaxOps == 2        \* authorise_url and setter calls on one AuthorisationBuilder

(***************************************************************************)
(* Option, strings                                                         *)
(***************************************************************************)
None == <<>>
Some(v) == <<v>>
IsSome(o) == o # None
Unwrap(o) == o[1]

\* the keys given to the stores: the strings of the store tests and the app's
\* StoreKeys::AuthorisationBuilder
Keys == {"key-1", "key-2", "AuthorisationBuilder"}
\* serde_json::to_string(&key): the JSON string literal of the key
key_to_string(key) == <<"\"", key, "\"">>
\* a Storage without items, and the map without entries it is compared with
EmptyStorage == [k \in {key_to_string(key) : key \in Keys} |-> None]
EmptyMap == [key \in Keys |-> None]

\* str::starts_with
starts_with(s, prefix) ==
    /\ Len(prefix) <= Len(s)
    /\ SubSeq(s, 1, Len(prefix)) = prefix

\* index of the first occurrence of character c in s, 0 when absent
IndexOf(s, c) ==
    IF \E i \in 1..Len(s) : s[i] = c
    THEN CHOOSE i \in 1..Len(s) : s[i] = c /\ \A j \in 1..(i - 1) : s[j] # c
    ELSE 0

RECURSIVE Split(_, _)
\* str::split(c): the segments of s between occurrences of c
Split(s, c) ==
    LET i == IndexOf(s, c) IN
    IF i = 0 THEN <<s>>
    ELSE <<SubSeq(s, 1, i - 1)>> \o Split(SubSeq(s, i + 1, Len(s)), c)

RECURSIVE Join(_, _)
Join(parts, sep) ==
    IF parts = <<>> THEN <<>>
    ELSE IF Len(parts) = 1 THEN parts[1]
    ELSE parts[1] \o sep \o Join(Tail(parts), sep)

(***************************************************************************)
(* url::Url as used by AccessToken::new.  A Url is its serialization (what *)
(* to_string()/as_str() return); the enumerated URLs carry no fragment.    *)
(***************************************************************************)
\* application/x-www-form-urlencoded: byte_serialize writes ' ' as '+', keeps
\* letters, digits, '*', '-', '.', '_' and percent-encodes every other byte
\* (of those, the model's values hold ':' and '/')
escape(c) ==
    CASE c = " " -> <<"+">>
      [] c = ":" -> <<"%", "3", "A">>
      [] c = "/" -> <<"%", "2", "F">>
      [] OTHER -> <<c>>
byte_serialize(s) ==
    IF \A i \in 1..Len(s) : Len(escape(s[i])) = 1
    THEN [i \in 1..Len(s) |-> escape(s[i])[1]]
    ELSE Join([i \in 1..Len(s) |-> escape(s[i])], <<>>)

RECURSIVE percent_decode(_)
\* percent_decode: %XX back to the byte it stands for
percent_decode(s) ==
    IF s = <<>> THEN <<>>
    ELSE IF Len(s) >= 3 /\ SubSeq(s, 1, 3) = <<"%", "3", "A">>
         THEN <<":">> \o percent_decode(SubSeq(s, 4, Len(s)))
    ELSE IF Len(s) >= 3 /\ SubSeq(s, 1, 3) = <<"%", "2", "F">>
         THEN <<"/">> \o percent_decode(SubSeq(s, 4, Len(s)))
    ELSE <<s[1]>> \o percent_decode(Tail(s))

\* ... and the parser reads '+' back as ' ', then percent-decodes
decode(s) ==
    LET spaced == [i \in 1..Len(s) |-> IF s[i] = "+" THEN " " ELSE s[i]] IN
    IF \E i \in 1..Len(s) : s[i] = "%" THEN percent_decode(spaced) ELSE spaced

\* Url::query(): what follows the first '?', None without one
query(url) ==
    LET i == IndexOf(url, "?") IN
    IF i = 0 THEN None ELSE Some(SubSeq(url, i + 1, Len(url)))

\* one `name=value` segment, split at the first '='; the value is empty without one
parse_pair(seg) ==
    LET i == IndexOf(seg, "=") IN
    IF i = 0 THEN <<decode(seg), <<>>>>
    ELSE <<decode(SubSeq(seg, 1, i - 1)), decode(SubSeq(seg, i + 1, Len(seg)))>>

\* Url::query_pairs(): the decoded (name, value) pairs in URL order; empty
\* segments between '&' are skipped
query_pairs(url) ==
    IF query(url) = None THEN <<>>
    ELSE LET segs == SelectSeq(Split(Unwrap(query(url)), "&"), LAMBDA x : x # <<>>)
         IN  [i \in 1..Len(segs) |-> parse_pair(segs[i])]

\* Serializer::append_pair over a list of pairs
serialize_pairs(pairs) ==
    Join([i \in 1..Len(pairs) |->
            byte_serialize(pairs[i][1]) \o <<"=">> \o byte_serialize(pairs[i][2])],
         <<"&">>)

\* base.query_pairs_mut().append_pair(..)...finish(): base has no query
with_query(base, pairs) ==
    IF pairs = <<>> THEN base ELSE base \o <<"?">> \o serialize_pairs(pairs)

\* collect::<HashMap<_, _>>() then get(key): a later pair replaces an earlier one
HashMapGet(pairs, key) ==
    LET idx == {i \in 1..Len(pairs) : pairs[i][1] = key} IN
    IF idx = {} THEN None
    ELSE Some(pairs[CHOOSE i \in idx : \A j \in idx : j <= i][2])

(***************************************************************************)
(* Result and the error types                                              *)
(***************************************************************************)
Ok(v) == [ok |-> TRUE, value |-> v]
Err(e) == [ok |-> FALSE, error |-> e]

\* utils::Mismatch
Mismatch(expected, received) == [expected |-> expected, received |-> received]

\* CallbackUrlError
CodeMissing == [variant |-> "CodeMissing"]
LoginError(err) == [variant |-> "LoginError", reason |-> err]
StateMismatch(m) == [variant |-> "StateMismatch", mismatch |-> m]
StateMissing == [variant |-> "StateMissing"]
UrlMismatch(m) == [variant |-> "UrlMismatch", mismatch |-> m]

\* AccessTokenError
CallbackUrl(e) == [variant |-> "CallbackUrl", error |-> e]
Request(e) == [variant |-> "Request", error |-> e]

\* utils::request::Error
StatusError(status, body) == [variant |-> "Status", status |-> status, body |-> body]
JSONError(body) == [variant |-> "Body", body |-> body]
ReqwestError == [variant |-> "Reqwest"]

(***************************************************************************)
(* String literals of the callback URL                                     *)
(***************************************************************************)
ParamError == <<"e", "r", "r", "o", "r">>
ParamState == <<"s", "t", "a", "t", "e">>
ParamCode == <<"c", "o", "d", "e">>

(***************************************************************************)
(* AccessToken::new, the checks on the callback URL (everything before the *)
(* token request): Ok(code) or the error the function returns.             *)
(***************************************************************************)
\* the checks with the callback_url prefix test replaced by equality
new_callback_checks_exact(st, url) ==
    LET query_params == query_pairs(url)
        error == HashMapGet(query_params, ParamError)
        received == HashMapGet(query_params, ParamState)
        code == HashMapGet(query_params, ParamCode)
    IN  IF IsSome(error) THEN Err(CallbackUrl(LoginError(Unwrap(error))))
        ELSE IF received = None THEN Err(CallbackUrl(StateMissing))
        ELSE IF Unwrap(received) # st.session_state
             THEN Err(CallbackUrl(StateMismatch(
                      Mismatch(st.session_state, Unwrap(received)))))
        ELSE IF code = None THEN Err(CallbackUrl(CodeMissing))
        ELSE IF url # st.callback_url
             THEN Err(CallbackUrl(UrlMismatch(Mismatch(st.callback_url, url))))
        ELSE Ok(Unwrap(code))

\* the checks with the state checked before the `error` parameter
new_callback_checks_state_first(st, url) ==
    LET query_params == query_pairs(url)
        error == HashMapGet(query_params, ParamError)
        received == HashMapGet(query_params, ParamState)
        code == HashMapGet(query_params, ParamCode)
    IN  IF received = None THEN Err(CallbackUrl(StateMissing))
        ELSE IF Unwrap(received) # st.session_state
             THEN Err(CallbackUrl(StateMismatch(
                      Mismatch(st.session_state, Unwrap(received)))))
        ELSE IF IsSome(error) THEN Err(CallbackUrl(LoginError(Unwrap(error))))
        ELSE IF code = None THEN Err(CallbackUrl(CodeMissing))
        ELSE IF ~starts_with(url, st.callback_url)
             THEN Err(CallbackUrl(UrlMismatch(Mismatch(st.callback_url, url))))
        ELSE Ok(Unwrap(code))

\* the checks with expected and received swapped in StateMismatch
new_callback_checks_swapped(st, url) ==
    LET query_params == query_pairs(url)
        error == HashMapGet(query_params, ParamError)
        received == HashMapGet(query_params, ParamState)
        code == HashMapGet(query_params, ParamCode)
    IN  IF IsSome(error) THEN Err(CallbackUrl(LoginError(Unwrap(error))))
        ELSE IF received = None THEN Err(CallbackUrl(StateMissing))
        ELSE IF Unwrap(received) # st.session_state
             THEN Err(CallbackUrl(StateMismatch(
                      Mismatch(Unwrap(received), st.session_state))))
        ELSE IF code = None THEN Err(CallbackUrl(CodeMissing))
        ELSE IF ~starts_with(url, st.callback_url)
             THEN Err(CallbackUrl(UrlMismatch(Mismatch(st.callback_url, url))))
        ELSE Ok(Unwrap(code))

\* the checks with the `code` parameter looked up before the state
new_callback_checks_code_first(st, url) ==
    LET query_params == query_pairs(url)
        error == HashMapGet(query_params, ParamError)
        received == HashMapGet(query_params, ParamState)
        code == HashMapGet(query_params, ParamCode)
    IN  IF IsSome(error) THEN Err(CallbackUrl(LoginError(Unwrap(error))))
        ELSE IF code = None THEN Err(CallbackUrl(CodeMissing))
        ELSE IF received = None THEN Err(CallbackUrl(StateMissing))
        ELSE IF Unwrap(received) # st.session_state
             THEN Err(CallbackUrl(StateMismatch(
                      Mismatch(st.session_state, Unwrap(received)))))
        ELSE IF ~starts_with(url, st.callback_url)
             THEN Err(CallbackUrl(UrlMismatch(Mismatch(st.callback_url, url))))
        ELSE Ok(Unwrap(code))

\* the checks with the callback_url prefix test made before the `code` lookup
new_callback_checks_url_first(st, url) ==
    LET query_params == query_pairs(url)
        error == HashMapGet(query_params, ParamError)
        received == HashMapGet(query_params, ParamState)
        code == HashMapGet(query_params, ParamCode)
    IN  IF IsSome(error) THEN Err(CallbackUrl(LoginError(Unwrap(error))))
        ELSE IF received = None THEN Err(CallbackUrl(StateMissing))
        ELSE IF Unwrap(received) # st.session_state
             THEN Err(CallbackUrl(StateMismatch(
                      Mismatch(st.session_state, Unwrap(received)))))
        ELSE IF ~starts_with(url, st.callback_url)
             THEN Err(CallbackUrl(UrlMismatch(Mismatch(st.callback_url, url))))
        ELSE IF code = None THEN Err(CallbackUrl(CodeMissing))
        ELSE Ok(Unwrap(code))

\* the checks with a missing state let through to the `code` lookup
new_callback_checks_no_state_missing(st, url) ==
    LET query_params == query_pairs(url)
        error == HashMapGet(query_params, ParamError)
        received == HashMapGet(query_params, ParamState)
        code == HashMapGet(query_params, ParamCode)
    IN  IF IsSome(error) THEN Err(CallbackUrl(LoginError(Unwrap(error))))
        ELSE IF received # None /\ Unwrap(received) # st.session_state
             THEN Err(CallbackUrl(StateMismatch(
                      Mismatch(st.session_state, Unwrap(received)))))
        ELSE IF code = None THEN Err(CallbackUrl(CodeMissing))
        ELSE IF received = None THEN Err(CallbackUrl(StateMissing))
        ELSE IF ~starts_with(url, st.callback_url)
             THEN Err(CallbackUrl(UrlMismatch(Mismatch(st.callback_url, url))))
        ELSE Ok(Unwrap(code))

new_callback_checks(st, url) ==
    LET query_params == query_pairs(url)
        error == HashMapGet(query_params, ParamError)
        received == HashMapGet(query_params, ParamState)
        code == HashMapGet(query_params, ParamCode)
    IN  IF IsSome(error) THEN Err(CallbackUrl(LoginError(Unwrap(error))))
        ELSE IF received = None THEN Err(CallbackUrl(StateMissing))
        ELSE IF Unwrap(received) # st.session_state
             THEN Err(CallbackUrl(StateMismatch(
                      Mismatch(st.session_state, Unwrap(received)))))
        ELSE IF code = None THEN Err(CallbackUrl(CodeMissing))
        ELSE IF ~starts_with(url, st.callback_url)
             THEN Err(CallbackUrl(UrlMismatch(Mismatch(st.callback_url, url))))
        ELSE Ok(Unwrap(code))

(***************************************************************************)
(* HTTP: what one send() can come back with, and utils::request            *)
(***************************************************************************)
\* JSON values of a response body
JStr(v) == [t |-> "str", v |-> v]
JInt(n) == [t |-> "int", v |-> n]
JNull == [t |-> "null"]
JObj(fields) == [t |-> "obj", fields |-> fields]

\* a response text: a JSON object with these fields, or text that is no JSON
JsonBody(fields) == [json |-> TRUE, fields |-> fields]
NotJson == [json |-> FALSE, fields |-> <<>>]
Has(fields, name) == name \in DOMAIN fields
IsStr(fields, name) == Has(fields, name) /\ fields[name].t = "str"

\* outcome of send(): a transport failure, or a response with a status and a
\* text() that reads the body (Some) or fails (None)
SendFailed == [sent |-> FALSE]
Response(status, text) == [sent |-> TRUE, status |-> status, text |-> text]

\* StatusCode::is_client_error() || StatusCode::is_server_error()
is_client_or_server_error(status) == status >= 400 /\ status <= 599

(***************************************************************************)
(* Scopes and their space-separated string form.  A scope string is a      *)
(* sequence of symbols: a word (a run of non-space characters) or " ".     *)
(***************************************************************************)
ScopeNames == [AppRemoteControl |-> "app-remote-control",
               PlaylistModifyPrivate |-> "playlist-modify-private",
               PlaylistModifyPublic |-> "playlist-modify-public",
               PlaylistReadCollaborative |-> "playlist-read-collaborative",
               PlaylistReadPrivate |-> "playlist-read-private",
               Streaming |-> "streaming",
               UgcImageUpload |-> "ugc-image-upload",
               UserFollowModify |-> "user-follow-modify",
               UserFollowRead |-> "user-follow-read",
               UserLibraryModify |-> "user-library-modify",
               UserLibraryRead |-> "user-library-read",
               UserModifyPlaybackState |-> "user-modify-playback-state",
               UserReadCurrentlyPlaying |-> "user-read-currently-playing",
               UserReadEmail |-> "user-read-email",
               UserReadPlaybackPosition |-> "user-read-playback-position",
               UserReadPlaybackState |-> "user-read-playback-state",
               UserReadPrivate |-> "user-read-private",
               UserReadRecentlyPlayed |-> "user-read-recently-played",
               UserTopRead |-> "user-top-read"]
Scopes == DOMAIN ScopeNames

\* Scopes::from_str on one segment of split(' ')
Scopes_from_str(seg) ==
    IF Len(seg) = 1 /\ \E sc \in Scopes : ScopeNames[sc] = seg[1]
    THEN Ok(CHOOSE sc \in Scopes : ScopeNames[sc] = seg[1])
    ELSE Err("ParseError")

\* visit_str that leaves out the segments that name no scope
visit_str_lenient(value) ==
    LET parts == Split(value, " ")
        known == SelectSeq(parts, LAMBDA seg : Scopes_from_str(seg).ok)
    IN  Ok([i \in 1..Len(known) |-> Scopes_from_str(known[i]).value])

\* serialize_scopes::Visitor::visit_str
visit_str(value) ==
    IF value # <<>>
    THEN LET parts == Split(value, " ")
             parsed == [i \in 1..Len(parts) |-> Scopes_from_str(parts[i])]
         IN  IF \A i \in 1..Len(parts) : parsed[i].ok
             THEN Ok([i \in 1..Len(parts) |-> parsed[i].value])
             ELSE Err("invalid_value")
    ELSE Ok(<<>>)

(***************************************************************************)
(* AccessToken                                                             *)
(***************************************************************************)
RefreshToken(token, client_id) == [token |-> token, client_id |-> client_id]

\* Duration::new: a Duration (and an Instant, as the time since the origin) is
\* whole seconds and the nanoseconds beyond them; a billion nanoseconds or
\* more carry into the seconds
Duration_new(secs, nanos) ==
    [secs |-> secs + nanos \div 1000000000, nanos |-> nanos % 1000000000]

\* Duration::from_secs
from_secs(secs) == [secs |-> secs, nanos |-> 0]

\* Instant::now(): the clock is read in whole seconds
Instant_now == from_secs(now)

\* PartialOrd::lt of two Durations or two Instants
lt(a, b) == a.secs < b.secs \/ (a.secs = b.secs /\ a.nanos < b.nanos)

\* Add<Duration> for Instant
add(instant, duration) ==
    Duration_new(instant.secs + duration.secs, instant.nanos + duration.nanos)

\* AccessToken::default()
AccessToken_default ==
    [token |-> "invalid-access-token",
     expires_at |-> Instant_now,
     scope |-> <<>>,
     refresh_token |-> RefreshToken("invalid-refresh-token", "invalid-client-id")]

\* Instant::checked_sub: None when the result would lie before the time origin
checked_sub(instant, duration) ==
    IF lt(instant, duration) THEN None
    ELSE IF instant.nanos >= duration.nanos
    THEN Some([secs |-> instant.secs - duration.secs,
               nanos |-> instant.nanos - duration.nanos])
    ELSE Some([secs |-> instant.secs - duration.secs - 1,
               nanos |-> instant.nanos + 1000000000 - duration.nanos])

\* is_valid_for with a plain subtraction: below the time origin the result
\* wraps to a far future instant
is_valid_for_wrapping(self, duration) ==
    IF lt(self.expires_at, duration) THEN TRUE
    ELSE lt(Instant_now, Unwrap(checked_sub(self.expires_at, duration)))

\* is_valid_for that asks for one more second than the duration
is_valid_for_margin(self, duration) ==
    LET valid_until == checked_sub(self.expires_at, add(duration, from_secs(1))) IN
    IF IsSome(valid_until) THEN lt(Instant_now, Unwrap(valid_until)) ELSE FALSE

\* AccessToken::is_valid_for
is_valid_for(self, duration) ==
    LET valid_until == checked_sub(self.expires_at, duration) IN
    IF IsSome(valid_until) THEN lt(Instant_now, Unwrap(valid_until)) ELSE FALSE

\* AccessToken::new: deserialize_optional_scopes
deserialize_optional_scopes(fields) ==
    IF ~Has(fields, "scope") THEN Ok(None)
    ELSE IF fields.scope.t = "null" THEN Ok(None)
    ELSE IF fields.scope.t = "str"
         THEN LET sc == visit_str(fields.scope.v) IN
              IF sc.ok THEN Ok(Some(sc.value)) ELSE sc
    ELSE Err("invalid_type")

\* AccessToken::new: deserialize_seconds (only visit_u64 is accepted)
deserialize_seconds(fields) ==
    IF Has(fields, "expires_in") /\ fields.expires_in.t = "int"
       /\ fields.expires_in.v >= 0
    THEN Ok(from_secs(fields.expires_in.v))
    ELSE Err("invalid_type")

\* serde's Deserialize for std::time::Duration: a structure of the two
\* unsigned integers secs and nanos and no other field, given to Duration::new
deserialize_duration(fields) ==
    IF Has(fields, "expires_in") /\ fields.expires_in.t = "obj"
       /\ DOMAIN fields.expires_in.fields = {"secs", "nanos"}
       /\ fields.expires_in.fields.secs.t = "int"
       /\ fields.expires_in.fields.secs.v >= 0
       /\ fields.expires_in.fields.nanos.t = "int"
       /\ fields.expires_in.fields.nanos.v >= 0
    THEN Ok(Duration_new(fields.expires_in.fields.secs.v,
                         fields.expires_in.fields.nanos.v))
    ELSE Err("invalid_type")

\* TokenType: the only variant is Bearer
deserialize_token_type(fields) ==
    IF IsStr(fields, "token_type") /\ fields.token_type.v = "Bearer"
    THEN Ok("Bearer") ELSE Err("unknown_variant")

\* Deserialize for the Response of AccessToken::new
new_Response(body) ==
    IF ~body.json THEN Err("syntax")
    ELSE LET f == body.fields
             scope == deserialize_optional_scopes(f)
             expires_in == deserialize_seconds(f)
         IN  IF /\ IsStr(f, "access_token")
                /\ deserialize_token_type(f).ok
                /\ scope.ok
                /\ expires_in.ok
                /\ IsStr(f, "refresh_token")
             THEN Ok([access_token |-> f.access_token.v,
                      token_type |-> "Bearer",
                      scope |-> scope.value,
                      expires_in |-> expires_in.value,
                      refresh_token |-> f.refresh_token.v])
             ELSE Err("data")

\* Deserialize for the Response of AccessToken::refresh
refresh_Response(body) ==
    IF ~body.json THEN Err("syntax")
    ELSE LET f == body.fields
             expires_in == deserialize_duration(f)
         IN  IF /\ IsStr(f, "access_token")
                /\ deserialize_token_type(f).ok
                /\ expires_in.ok
             THEN Ok([access_token |-> f.access_token.v,
                      token_type |-> "Bearer",
                      expires_in |-> expires_in.value])
             ELSE Err("data")

\* Deserialize for the caller's R
api_Response(body) ==
    IF body.json /\ Has(body.fields, "code") /\ Has(body.fields, "description")
    THEN Ok(body.fields) ELSE Err("data")

\* serde_json::from_str::<R>: R is the response type the caller asks for
from_str(R, body) ==
    CASE R = "AccessToken::new::Response" -> new_Response(body)
      [] R = "AccessToken::refresh::Response" -> refresh_Response(body)
      [] OTHER -> api_Response(body)

\* utils::request with the early error check widened to every non-2xx status
request_non_2xx(outcome, R) ==
    IF ~outcome.sent THEN Err(ReqwestError)
    ELSE IF outcome.status < 200 \/ outcome.status > 299
         THEN Err(StatusError(outcome.status, outcome.text))
    ELSE IF outcome.text = None THEN Err(ReqwestError)
    ELSE LET body == Unwrap(outcome.text)
             parsed == from_str(R, body)
         IN  IF parsed.ok THEN Ok(parsed.value) ELSE Err(JSONError(body))

\* utils::request, from the outcome of send() on
request(outcome, R) ==
    IF ~outcome.sent THEN Err(ReqwestError)
    ELSE IF is_client_or_server_error(outcome.status)
         THEN Err(StatusError(outcome.status, outcome.text))
    ELSE IF outcome.text = None THEN Err(ReqwestError)
    ELSE LET body == Unwrap(outcome.text)
             parsed == from_str(R, body)
         IN  IF parsed.ok THEN Ok(parsed.value) ELSE Err(JSONError(body))

\* the exchange form with the redirect_uri read from nowhere but the builder's
\* origin (the path of the callback left out)
new_form_origin_redirect(st, code) ==
    [grant_type |-> "authorization_code",
     code |-> code,
     redirect_uri |-> SubSeq(st.callback_url, 1, 8),
     client_id |-> st.client_id,
     code_verifier |-> st.code_verifier]

\* the form AccessToken::new posts to the token endpoint
new_form(st, code) ==
    [grant_type |-> "authorization_code",
     code |-> code,
     redirect_uri |-> st.callback_url,
     client_id |-> st.client_id,
     code_verifier |-> st.code_verifier]

\* the form AccessToken::refresh posts to the token endpoint
refresh_form(self) ==
    [grant_type |-> "refresh_token",
     refresh_token |-> self.token,
     client_id |-> self.refresh_token.client_id]

\* the exchanged credential with an empty response scope treated as absent
new_token_empty_as_absent(st, res) ==
    [token |-> res.access_token,
     expires_at |-> add(Instant_now, res.expires_in),
     scope |-> IF IsSome(res.scope) /\ Unwrap(res.scope) # <<>>
               THEN Unwrap(res.scope) ELSE st.scope,
     refresh_token |-> RefreshToken(res.refresh_token, st.client_id)]

\* AccessToken::new: the value built from the token response
new_token(st, res) ==
    [token |-> res.access_token,
     expires_at |-> add(Instant_now, res.expires_in),
     scope |-> IF IsSome(res.scope) THEN Unwrap(res.scope) ELSE st.scope,
     refresh_token |-> RefreshToken(res.refresh_token, st.client_id)]

\* refresh reading refresh token and scope from the credential left in the
\* Client by std::mem::take instead of from self
refreshed_token_taken(self, res) ==
    [token |-> res.access_token,
     expires_at |-> add(Instant_now, res.expires_in),
     refresh_token |-> AccessToken_default.refresh_token,
     scope |-> AccessToken_default.scope]

\* AccessToken::refresh: the value built from the token response
refreshed_token(self, res) ==
    [token |-> res.access_token,
     expires_at |-> add(Instant_now, res.expires_in),
     refresh_token |-> self.refresh_token,
     scope |-> self.scope]

(***************************************************************************)
(* Inputs                                                                  *)
(***************************************************************************)
Origin == <<"h", "t", "t", "p", ":", "/", "/", "h">>
OtherOrigin == <<"h", "t", "t", "p", ":", "/", "/", "e">>
PathAuthorised == <<"/", "a", "u", "t", "h", "o", "r", "i", "s", "e", "d">>
PathAuth == <<"/", "a", "u", "t", "h">>
PathExtra == <<"/", "x">>

\* callback_url values a builder can hold (callback_url / callback_url_path)
PersistedCallbackUrls == {Origin \o PathAuthorised, Origin \o PathAuth}

\* where the browser can land: the callback itself, below it, a shorter path,
\* another origin
ReceivedBases ==
    {Origin \o PathAuthorised, Origin \o PathAuthorised \o PathExtra,
     Origin \o PathAuth, OtherOrigin \o PathAuthorised}

SessionState == <<"s", "1">>
ParamValues == {SessionState, <<"a", " ", "b">>}
ParamNames == {ParamError, ParamState, ParamCode}
QueryPairs == ParamNames \X ParamValues
PairLists == UNION {[1..n -> QueryPairs] : n \in 0..MaxPairs}

\* the callback URLs AccessToken::new is tried on
CallbackUrls == {with_query(base, pairs) : base \in ReceivedBases, pairs \in PairLists}

\* the persisted AuthorisationBuilder values
States ==
    [client_id : {"id"},
     callback_url : PersistedCallbackUrls,
     scope : {<<>>, <<"UserReadEmail">>},
     session_state : {SessionState},
     code_verifier : {"verifier"}]

\* the `duration` arguments of Client::request
Durations == {from_secs(secs) : secs \in {0, 1, 2}}
ExpiresIn == {0, 3}
\* expires_at of the credential a Client starts with: expired, shorter than a
\* lookahead, longer than every lookahead
InitialExpiry == {0, 1, 3}

\* a Duration as serde writes it
Duration(secs, nanos) == JObj([secs |-> JInt(secs), nanos |-> JInt(nanos)])

\* bodies a token endpoint (or whatever answers in its place) can send
TokenBodies ==
    {NotJson,
     JsonBody([error |-> JStr("invalid_client")])}
    \cup {JsonBody([access_token |-> JStr("at2"), token_type |-> JStr("Bearer"),
                    expires_in |-> JInt(e), refresh_token |-> JStr("rt2")])
            : e \in ExpiresIn}
    \cup {JsonBody([access_token |-> JStr("at2"), token_type |-> JStr("Bearer"),
                    expires_in |-> JInt(3), refresh_token |-> JStr("rt2"),
                    scope |-> sc])
            : sc \in {JNull, JStr(<<>>), JStr(<<"app-remote-control">>),
                      JStr(<<"app-remote-control", " ", "bogus">>)}}
    \cup {JsonBody([access_token |-> JStr("at2"), token_type |-> JStr("Bearer"),
                    expires_in |-> Duration(e, 0)])
            : e \in ExpiresIn}
    \cup {JsonBody([access_token |-> JStr("at2"), token_type |-> JStr("Bearer"),
                    expires_in |-> Duration(3, 5)])}
    \cup {JsonBody([access_token |-> JStr("at2"), token_type |-> JStr("mac"),
                    expires_in |-> Duration(3, 0)]),
          JsonBody([access_token |-> JStr("at2"), token_type |-> JStr("Bearer"),
                    expires_in |-> JInt(-1), refresh_token |-> JStr("rt2")])}

\* bodies of the API, for a caller whose R is {code, description}
ApiBodies ==
    {NotJson, JsonBody([code |-> JInt(200), description |-> JStr("OK")])}

Statuses == {200, 302, 400, 503}

\* bodies that are tried with an error status
ErrorBodies ==
    {NotJson,
     JsonBody([error |-> JStr("invalid_client")]),
     JsonBody([access_token |-> JStr("at2"), token_type |-> JStr("Bearer"),
               expires_in |-> JInt(3), refresh_token |-> JStr("rt2")]),
     JsonBody([access_token |-> JStr("at2"), token_type |-> JStr("Bearer"),
               expires_in |-> Duration(3, 0)]),
     JsonBody([code |-> JInt(200), description |-> JStr("OK")])}

Outcomes(bodies) ==
    {SendFailed}
    \cup {Response(st, None) : st \in Statuses}
    \cup {Response(st, Some(b)) : st \in {x \in Statuses : ~is_client_or_server_error(x)},
                                  b \in bodies}
    \cup {Response(st, Some(b)) : st \in {x \in Statuses : is_client_or_server_error(x)},
                                  b \in bodies \cap ErrorBodies}

(***************************************************************************)
(* AccessToken::new                                                        *)
(***************************************************************************)
\* called with the persisted state and the URL the browser is at; runs up to
\* the token request, or returns the callback error
AccessToken_new(url) ==
    /\ new_pc = "start"
    /\ callback_url' = Some(url)
    /\ LET checked == new_callback_checks(state, url) IN
       IF checked.ok
       THEN /\ token_posts' = Append(token_posts, new_form(state, checked.value))
            /\ new_pc' = "request_await"
            /\ new_result' = None
       ELSE /\ token_posts' = token_posts
            /\ new_pc' = "returned"
            /\ new_result' = Some(Err(checked.error))
    /\ UNCHANGED <<now, state>>
    /\ UNCHANGED <<reqVars, builderVars, storeVars, delayVars, formVars>>

\* the token request completes and AccessToken::new returns
AccessToken_new_response(outcome) ==
    /\ new_pc = "request_await"
    /\ LET res == request(outcome, "AccessToken::new::Response") IN
       new_result' = Some(IF res.ok THEN Ok(new_token(state, res.value))
                          ELSE Err(Request(res.error)))
    /\ new_pc' = "returned"
    /\ UNCHANGED <<now, state, callback_url, token_posts>>
    /\ UNCHANGED <<reqVars, builderVars, storeVars, delayVars, formVars>>

\* AuthorisationForm::default()
AuthorisationForm_default == [auth_url |-> None, loading |-> FALSE]

\* no authorise_url call is in flight, no delayed function has been created,
\* and the form is as create() leaves it without a client id
InitComponents ==
    /\ authorise_pc = None
    /\ timer = None
    /\ delayed = None
    /\ fn_calls = 0
    /\ stop_call = None
    /\ form = AuthorisationForm_default
    /\ computations = <<>>
    /\ changes = 0

\* time passes while a future is suspended or nothing runs
Tick ==
    /\ \/ new_pc = "request_await" /\ now < MaxWait
       \/ req_pc # "none" /\ now < MaxTime
    /\ now' = now + 1
    /\ UNCHANGED <<state, callback_url, new_pc, new_result, token_posts>>
    /\ UNCHANGED <<reqVars, builderVars, storeVars, delayVars, formVars>>

Init ==
    /\ now = 0
    /\ state \in States
    /\ callback_url = None
    /\ new_pc = "start"
    /\ new_result = None
    /\ token_posts = <<>>
    /\ client = None
    /\ req_pc = "none"
    /\ req_duration = from_secs(0)
    /\ req_self = None
    /\ req_result = None
    /\ api_requests = <<>>
    /\ req_prior = None
    /\ req_trace = <<>>
    /\ calls = 0
    /\ builder = None
    /\ builder_call = None
    /\ ops = 0
    /\ store = EmptyStorage
    /\ store_map = EmptyMap
    /\ store_call = None
    /\ hashmap = EmptyStorage
    /\ InitComponents

Next ==
    \/ \E url \in CallbackUrls : AccessToken_new(url)
    \/ \E outcome \in Outcomes(TokenBodies) : AccessToken_new_response(outcome)
    \/ Tick

Spec == Init /\ [][Next]_vars

(***************************************************************************)
(* Client                                                                  *)
(***************************************************************************)
\* the credentials a Client is created with: built by AccessToken::new at time 0
InitialTokens ==
    [token : {"at1"},
     expires_at : {from_secs(secs) : secs \in InitialExpiry},
     scope : {<<"UserReadEmail">>},
     refresh_token : {RefreshToken("rt1", "id")}]

\* Client::new
Client_new(token) == [token |-> token]

\* positions of Client::request at which no call is in progress
Idle == {"idle", "returned", "dropped"}

\* build_request(client).bearer_auth(token.as_str()), as handed to utils::request
api_request(token) == [bearer |-> token.token]

\* ghost record of a sent API request: the request, the credential the Client
\* holds when it is sent, and what is_valid_for(duration) gives for that
\* credential at that moment of the call
sent(req, held, duration) ==
    [req |-> req,
     held |-> held,
     duration |-> duration,
     valid |-> is_valid_for(held, duration)]

\* Client::request callable while an earlier call of the same Client is still
\* awaiting (no exclusive borrow of the Client)
Client_request_reentrant(duration) ==
    /\ req_pc # "none"
    /\ req_pc # "panicked"
    /\ calls < MaxCalls
    /\ calls' = calls + 1
    /\ req_duration' = duration
    /\ req_prior' = Some(client.token)
    /\ req_result' = None
    /\ IF ~is_valid_for(client.token, duration)
       THEN /\ req_self' = Some(client.token)
            /\ client' = [client EXCEPT !.token = AccessToken_default]
            /\ token_posts' = Append(token_posts, refresh_form(client.token))
            /\ req_pc' = "refresh_await"
            /\ req_trace' = <<"refresh_sent">>
            /\ UNCHANGED api_requests
       ELSE /\ api_requests' =
                 Append(api_requests,
                        sent(api_request(client.token), client.token, duration))
            /\ req_pc' = "request_await"
            /\ req_trace' = <<"request_sent">>
            /\ UNCHANGED <<req_self, client, token_posts>>
    /\ UNCHANGED <<now, newVars, builderVars, storeVars, delayVars, formVars>>

\* Client::request is called: get_valid_token_for runs up to the refresh
\* request when the credential is not valid for `duration`, otherwise the API
\* request is sent
Client_request(duration) ==
    /\ req_pc \in Idle
    /\ calls < MaxCalls
    /\ calls' = calls + 1
    /\ req_duration' = duration
    /\ req_prior' = Some(client.token)
    /\ req_result' = None
    /\ IF ~is_valid_for(client.token, duration)
       THEN \* std::mem::take(&mut self.token).refresh()
            /\ req_self' = Some(client.token)
            /\ client' = [client EXCEPT !.token = AccessToken_default]
            /\ token_posts' = Append(token_posts, refresh_form(client.token))
            /\ req_pc' = "refresh_await"
            /\ req_trace' = <<"refresh_sent">>
            /\ UNCHANGED api_requests
       ELSE /\ api_requests' =
                 Append(api_requests,
                        sent(api_request(client.token), client.token, duration))
            /\ req_pc' = "request_await"
            /\ req_trace' = <<"request_sent">>
            /\ UNCHANGED <<req_self, client, token_posts>>
    /\ UNCHANGED <<now, newVars, builderVars, storeVars, delayVars, formVars>>

\* the refresh is sent once more when it fails
Client_request_refreshed_retry(outcome) ==
    /\ req_pc = "refresh_await"
    /\ LET res == request(outcome, "AccessToken::refresh::Response") IN
       IF ~res.ok
       THEN /\ token_posts' = Append(token_posts, refresh_form(Unwrap(req_self)))
            /\ req_trace' = Append(req_trace, "refresh_sent")
            /\ Len(req_trace) < 2
            /\ UNCHANGED <<client, api_requests, req_result, req_pc, req_self>>
       ELSE LET token == refreshed_token(Unwrap(req_self), res.value) IN
            /\ client' = [client EXCEPT !.token = token]
            /\ IF is_valid_for(token, req_duration)
               THEN /\ api_requests' =
                          Append(api_requests,
                                 sent(api_request(token), token, req_duration))
                    /\ req_pc' = "request_await"
                    /\ req_trace' = req_trace \o <<"refreshed", "request_sent">>
               ELSE /\ req_pc' = "panicked"
                    /\ req_trace' = req_trace \o <<"refreshed", "assert_failed">>
                    /\ UNCHANGED api_requests
            /\ req_self' = None
            /\ UNCHANGED <<req_result, token_posts>>
    /\ UNCHANGED <<now, newVars, builderVars, storeVars, delayVars, formVars, req_duration, req_prior, calls>>

\* the refresh completes, with the assert of get_valid_token_for left out
Client_request_refreshed_unasserted(outcome) ==
    /\ req_pc = "refresh_await"
    /\ LET res == request(outcome, "AccessToken::refresh::Response") IN
       IF ~res.ok
       THEN /\ req_result' = Some(Err(res.error))
            /\ req_pc' = "returned"
            /\ req_trace' = Append(req_trace, "refresh_failed")
            /\ UNCHANGED <<client, api_requests>>
       ELSE LET token == refreshed_token(Unwrap(req_self), res.value) IN
            /\ client' = [client EXCEPT !.token = token]
            /\ api_requests' =
                 Append(api_requests, sent(api_request(token), token, req_duration))
            /\ req_pc' = "request_await"
            /\ req_trace' = req_trace \o <<"refreshed", "request_sent">>
            /\ UNCHANGED req_result
    /\ req_self' = None
    /\ UNCHANGED <<now, newVars, builderVars, storeVars, delayVars, formVars, token_posts, req_duration, req_prior, calls>>

\* the refresh completes with the bearer taken from the credential moved out
\* of the Client instead of the one it now holds
Client_request_refreshed_stale_bearer(outcome) ==
    /\ req_pc = "refresh_await"
    /\ LET res == request(outcome, "AccessToken::refresh::Response") IN
       IF ~res.ok
       THEN /\ req_result' = Some(Err(res.error))
            /\ req_pc' = "returned"
            /\ req_trace' = Append(req_trace, "refresh_failed")
            /\ UNCHANGED <<client, api_requests>>
       ELSE LET token == refreshed_token(Unwrap(req_self), res.value) IN
            /\ client' = [client EXCEPT !.token = token]
            /\ IF is_valid_for(token, req_duration)
               THEN /\ api_requests' =
                          Append(api_requests,
                                 sent(api_request(Unwrap(req_self)), token,
                                      req_duration))
                    /\ req_pc' = "request_await"
                    /\ req_trace' = req_trace \o <<"refreshed", "request_sent">>
               ELSE /\ req_pc' = "panicked"
                    /\ req_trace' = req_trace \o <<"refreshed", "assert_failed">>
                    /\ UNCHANGED api_requests
            /\ UNCHANGED req_result
    /\ req_self' = None
    /\ UNCHANGED <<now, newVars, builderVars, storeVars, delayVars, formVars, token_posts, req_duration, req_prior, calls>>

\* the refresh request completes: on an error Client::request returns it; on
\* success the Client takes the refreshed credential, asserts that it is valid
\* for `duration` and the API request is sent
Client_request_refreshed(outcome) ==
    /\ req_pc = "refresh_await"
    /\ LET res == request(outcome, "AccessToken::refresh::Response") IN
       IF ~res.ok
       THEN /\ req_result' = Some(Err(res.error))
            /\ req_pc' = "returned"
            /\ req_trace' = Append(req_trace, "refresh_failed")
            /\ UNCHANGED <<client, api_requests>>
       ELSE LET token == refreshed_token(Unwrap(req_self), res.value) IN
            /\ client' = [client EXCEPT !.token = token]
            /\ IF is_valid_for(token, req_duration)
               THEN /\ api_requests' =
                          Append(api_requests,
                                 sent(api_request(token), token, req_duration))
                    /\ req_pc' = "request_await"
                    /\ req_trace' = req_trace \o <<"refreshed", "request_sent">>
               ELSE /\ req_pc' = "panicked"
                    /\ req_trace' = req_trace \o <<"refreshed", "assert_failed">>
                    /\ UNCHANGED api_requests
            /\ UNCHANGED req_result
    /\ req_self' = None
    /\ UNCHANGED <<now, newVars, builderVars, storeVars, delayVars, formVars, token_posts, req_duration, req_prior, calls>>

\* the API request completes and Client::request returns its result
Client_request_response(outcome) ==
    /\ req_pc = "request_await"
    /\ req_result' = Some(request(outcome, "R"))
    /\ req_pc' = "returned"
    /\ req_trace' = Append(req_trace, "response")
    /\ UNCHANGED <<now, newVars, builderVars, storeVars, delayVars, formVars, token_posts, client, req_duration, req_self,
                   api_requests, req_prior, calls>>

\* the caller drops the Client::request future at one of its awaits
Client_request_drop ==
    /\ req_pc \in {"refresh_await", "request_await"}
    /\ req_pc' = "dropped"
    /\ req_self' = None
    /\ req_trace' = Append(req_trace, "dropped")
    /\ UNCHANGED <<now, newVars, builderVars, storeVars, delayVars, formVars, token_posts, client, req_duration, req_result,
                   api_requests, req_prior, calls>>

InitClient ==
    /\ now = 0
    /\ state = None
    /\ callback_url = None
    /\ new_pc = "none"
    /\ new_result = None
    /\ token_posts = <<>>
    /\ client \in {Client_new(token) : token \in InitialTokens}
    /\ req_pc = "idle"
    /\ req_duration = from_secs(0)
    /\ req_self = None
    /\ req_result = None
    /\ api_requests = <<>>
    /\ req_prior = None
    /\ req_trace = <<>>
    /\ calls = 0
    /\ builder = None
    /\ builder_call = None
    /\ ops = 0
    /\ store = EmptyStorage
    /\ store_map = EmptyMap
    /\ store_call = None
    /\ hashmap = EmptyStorage
    /\ InitComponents

NextClient ==
    \/ \E duration \in Durations : Client_request(duration)
    \/ \E outcome \in Outcomes(TokenBodies) : Client_request_refreshed(outcome)
    \/ \E outcome \in Outcomes(ApiBodies) : Client_request_response(outcome)
    \/ Client_request_drop
    \/ Tick

SpecClient == InitClient /\ [][NextClient]_vars

(***************************************************************************)
(* utils: base64, random, sha256.  Bytes are numbers in 0..255; an encoded *)
(* string is a sequence of one-character strings.                          *)
(***************************************************************************)
\* base64::alphabet::URL_SAFE
URL_SAFE ==
    <<"A", "B", "C", "D", "E", "F", "G", "H", "I", "J", "K", "L", "M",
      "N", "O", "P", "Q", "R", "S", "T", "U", "V", "W", "X", "Y", "Z",
      "a", "b", "c", "d", "e", "f", "g", "h", "i", "j", "k", "l", "m",
      "n", "o", "p", "q", "r", "s", "t", "u", "v", "w", "x", "y", "z",
      "0", "1", "2", "3", "4", "5", "6", "7", "8", "9", "-", "_">>

\* the k-th group of six bits (k from 0) of the bit stream of `bytes`, the
\* last group filled up with zero bits
sextet(bytes, k) ==
    LET i == (6 * k) \div 8 + 1
        r == (6 * k) % 8
        hi == bytes[i]
        lo == IF i < Len(bytes) THEN bytes[i + 1] ELSE 0
    IN  ((hi * 256 + lo) \div (2 ^ (10 - r))) % 64

\* utils::base64: GeneralPurpose::new(&URL_SAFE, NO_PAD).encode(bytes)
base64(bytes) ==
    LET n == (Len(bytes) * 8 + 5) \div 6 IN
    [k \in 1..n |-> URL_SAFE[sextet(bytes, k - 1) + 1]]

\* utils::random(bytes): base64 of `bytes` bytes of the browser's entropy
\* source; `entropy` is what the source gives
random(bytes, entropy) == base64(SubSeq(entropy, 1, bytes))

\* marks an encoded SHA-256 digest
Sha256Mark == "sha256."

\* utils::sha256(data): base64 of the digest SubtleCrypto computes.  The
\* digest is kept symbolic: the mark followed by the hashed data stands for
\* the 43 characters base64(SHA-256(data)); equal data give equal digests and
\* different data different ones.
sha256(data) == <<Sha256Mark>> \o data

(***************************************************************************)
(* AuthorisationBuilder                                                    *)
(***************************************************************************)
\* ENDPOINT: Url::parse("https://accounts.spotify.com"), as serialized
ENDPOINT ==
    <<"h", "t", "t", "p", "s", ":", "/", "/", "a", "c", "c", "o", "u", "n",
      "t", "s", ".", "s", "p", "o", "t", "i", "f", "y", ".", "c", "o", "m">>

Segment_authorised == <<"a", "u", "t", "h", "o", "r", "i", "s", "e", "d">>
Segment_authorize == <<"a", "u", "t", "h", "o", "r", "i", "z", "e">>
Segment_auth == <<"a", "u", "t", "h">>

\* utils::Url::with_path on a URL whose path is empty or does not end in '/'
with_path(url, path_segments) ==
    url \o Join([i \in 1..Len(path_segments) |-> <<"/">> \o path_segments[i]], <<>>)

\* utils::Url::from_browser_location: the origin the application is served from
from_browser_location == Origin

\* from_iter ending every name with a space instead of joining with one
String_from_iter_trailing_space(scope) ==
    Join([i \in 1..Len(scope) |-> <<ScopeNames[scope[i]], " ">>], <<>>)

\* String::from_iter(scope): the kebab-case names joined by one space
String_from_iter(scope) ==
    Join([i \in 1..Len(scope) |-> <<ScopeNames[scope[i]]>>], <<" ">>)

\* a URL that cannot be a base: mailto:x
NotABaseUrl == <<"m", "a", "i", "l", "t", "o", ":", "x">>
\* url::Url::cannot_be_a_base: no '/' follows the scheme's ':'
cannot_be_a_base(url) ==
    LET i == IndexOf(url, ":") IN
    i = 0 \/ i = Len(url) \/ url[i + 1] # "/"

\* AuthorisationBuilder::new
AuthorisationBuilder_new(client_id, entropy_state, entropy_verifier) ==
    [client_id |-> client_id,
     session_state |-> random(24, entropy_state),
     code_verifier |-> random(96, entropy_verifier),
     scope |-> <<>>,
     callback_url |-> with_path(from_browser_location, <<Segment_authorised>>)]

\* session_state storing the padded encoding
AuthorisationBuilder_session_state_padded(self, bytes) ==
    IF bytes = <<>>
    THEN [self |-> self, ok |-> FALSE]
    ELSE LET encoded == base64(bytes)
             pad == (4 - (Len(encoded) % 4)) % 4
         IN  [self |-> [self EXCEPT !.session_state =
                                       encoded \o [k \in 1..pad |-> "="]],
              ok |-> TRUE]

\* AuthorisationBuilder::session_state: [self |-> the builder afterwards,
\* ok |-> whether Ok(self) rather than Err(self) is returned]
AuthorisationBuilder_session_state(self, bytes) ==
    IF bytes = <<>>
    THEN [self |-> self, ok |-> FALSE]
    ELSE [self |-> [self EXCEPT !.session_state = base64(bytes)], ok |-> TRUE]

\* code_verifier with the upper limit taken in encoded characters
AuthorisationBuilder_code_verifier_chars(self, bytes) ==
    IF Len(bytes) < 32 \/ Len(bytes) > 128
    THEN [self |-> self, ok |-> FALSE]
    ELSE [self |-> [self EXCEPT !.code_verifier = base64(bytes)], ok |-> TRUE]

\* AuthorisationBuilder::code_verifier
AuthorisationBuilder_code_verifier(self, bytes) ==
    IF Len(bytes) < 32 \/ Len(bytes) > 96
    THEN [self |-> self, ok |-> FALSE]
    ELSE [self |-> [self EXCEPT !.code_verifier = base64(bytes)], ok |-> TRUE]

\* AuthorisationBuilder::callback_url: url.try_into()? fails on a URL that
\* cannot be a base
AuthorisationBuilder_callback_url(self, url) ==
    IF cannot_be_a_base(url)
    THEN [self |-> self, ok |-> FALSE]
    ELSE [self |-> [self EXCEPT !.callback_url = url], ok |-> TRUE]

\* AuthorisationBuilder::callback_url_path
AuthorisationBuilder_callback_url_path(self, path) ==
    [self |-> [self EXCEPT !.callback_url = with_path(from_browser_location, path)],
     ok |-> TRUE]

\* the pairs with the verifier itself as challenge (the `plain` method)
authorise_pairs_plain(self) ==
    <<<<<<"client_id">>, self.client_id>>,
      <<<<"response_type">>, <<"c", "o", "d", "e">>>>,
      <<<<"redirect_uri">>, self.callback_url>>,
      <<<<"state">>, self.session_state>>,
      <<<<"code_challenge_method">>, <<"S", "2", "5", "6">>>>,
      <<<<"code_challenge">>, self.code_verifier>>>>

\* the pairs authorise_url appends before the scope, in order
authorise_pairs(self) ==
    <<<<<<"client_id">>, self.client_id>>,
      <<<<"response_type">>, <<"c", "o", "d", "e">>>>,
      <<<<"redirect_uri">>, self.callback_url>>,
      <<<<"state">>, self.session_state>>,
      <<<<"code_challenge_method">>, <<"S", "2", "5", "6">>>>,
      <<<<"code_challenge">>, sha256(self.code_verifier)>>>>

\* authorise_url appending the scope whether or not it is empty
AuthorisationBuilder_authorise_url_always_scope(self, scope) ==
    LET url == with_path(ENDPOINT, <<Segment_authorize>>) IN
    [self |-> IF scope # <<>> THEN [self EXCEPT !.scope = scope] ELSE self,
     url |-> with_query(url, Append(authorise_pairs(self),
                                    <<<<"scope">>, String_from_iter(scope)>>))]

\* authorise_url adding the scopes to the stored ones instead of replacing them
AuthorisationBuilder_authorise_url_extending(self, scope) ==
    LET url == with_path(ENDPOINT, <<Segment_authorize>>) IN
    IF scope # <<>>
    THEN [self |-> [self EXCEPT !.scope = self.scope \o scope],
          url |-> with_query(url, Append(authorise_pairs(self),
                                         <<<<"scope">>, String_from_iter(scope)>>))]
    ELSE [self |-> self,
          url |-> with_query(url, authorise_pairs(self))]

\* AuthorisationBuilder::authorise_url: [self |-> the builder afterwards,
\* url |-> the URL returned]
AuthorisationBuilder_authorise_url(self, scope) ==
    LET url == with_path(ENDPOINT, <<Segment_authorize>>) IN
    IF scope # <<>>
    THEN [self |-> [self EXCEPT !.scope = scope],
          url |-> with_query(url, Append(authorise_pairs(self),
                                         <<<<"scope">>, String_from_iter(scope)>>))]
    ELSE [self |-> self,
          url |-> with_query(url, authorise_pairs(self))]

(***************************************************************************)
(* The authorisation flow: a builder is made and configured, authorise_url *)
(* is built, the builder is persisted, and AccessToken::new is called on   *)
(* the callback with the persisted builder.                                *)
(***************************************************************************)
Bytes(len, seed) == [i \in 1..len |-> (seed * i) % 256]

\* what the entropy source gives for one random() call
Entropy == {Bytes(96, 77)}
\* arguments of session_state()
StateBytes == {Bytes(len, seed) : len \in {0, 1, 2, 24}, seed \in {0, 255}}
\* arguments of code_verifier(): lengths around both ends of 32..=96
VerifierBytes ==
    {Bytes(len, 255) : len \in {0, 31, 32, 33, 95, 96, 97}} \cup {Bytes(32, 0)}
\* arguments of callback_url()
CallbackUrlArgs == {Origin \o PathAuth, NotABaseUrl}
\* arguments of callback_url_path()
CallbackPathArgs == {<<Segment_auth>>}
\* arguments of authorise_url()
ScopeArgs == {<<>>, <<"UserReadEmail">>, <<"UserReadEmail", "AppRemoteControl">>}

\* ghost record of a builder operation
BuilderCall(op, arg, before, after, ok, url) ==
    [op |-> op, arg |-> arg, before |-> before, after |-> after, ok |-> ok,
     url |-> url]

\* a setter of the builder is called with `arg` and gives `out`; no setter
\* can be called while authorise_url holds its &mut self
SetterStep(op, arg, out) ==
    /\ builder # None
    /\ authorise_pc = None
    /\ ops < MaxOps
    /\ ops' = ops + 1
    /\ builder' = Some(out.self)
    /\ builder_call' = Some(BuilderCall(op, arg, Unwrap(builder), out.self, out.ok, None))
    /\ UNCHANGED <<now, newVars, token_posts, reqVars, authorise_pc, storeVars,
                   delayVars, formVars>>

Call_session_state(bytes) ==
    /\ builder # None
    /\ SetterStep("session_state", bytes,
                  AuthorisationBuilder_session_state(Unwrap(builder), bytes))

Call_code_verifier(bytes) ==
    /\ builder # None
    /\ SetterStep("code_verifier", bytes,
                  AuthorisationBuilder_code_verifier(Unwrap(builder), bytes))

Call_callback_url(url) ==
    /\ builder # None
    /\ SetterStep("callback_url", url,
                  AuthorisationBuilder_callback_url(Unwrap(builder), url))

Call_callback_url_path(path) ==
    /\ builder # None
    /\ SetterStep("callback_url_path", path,
                  AuthorisationBuilder_callback_url_path(Unwrap(builder), path))

\* authorise_url(scope) is called and polled: the future is suspended at
\* sha256(..).await, the builder is as it was; &mut self keeps every other
\* use of the builder out until the future completes or is dropped
Call_authorise_url(scope) ==
    /\ builder # None
    /\ authorise_pc = None
    /\ ops < MaxOps
    /\ ops' = ops + 1
    /\ authorise_pc' = Some(scope)
    /\ UNCHANGED <<now, newVars, token_posts, reqVars, builder, builder_call,
                   storeVars, delayVars, formVars>>

\* the digest resolves: authorise_url stores the scope and returns the URL
Call_authorise_url_resume ==
    /\ authorise_pc # None
    /\ LET scope == Unwrap(authorise_pc)
           out == AuthorisationBuilder_authorise_url(Unwrap(builder), scope)
       IN
       /\ builder' = Some(out.self)
       /\ builder_call' =
            Some(BuilderCall("authorise_url", scope, Unwrap(builder), out.self,
                             TRUE, Some(out.url)))
    /\ authorise_pc' = None
    /\ UNCHANGED <<now, newVars, token_posts, reqVars, ops, storeVars, delayVars,
                   formVars>>

\* the authorise_url future is dropped at its await: no scope is stored and no
\* URL returned
Call_authorise_url_drop ==
    /\ authorise_pc # None
    /\ authorise_pc' = None
    /\ UNCHANGED <<now, newVars, token_posts, reqVars, builder, builder_call, ops,
                   storeVars, delayVars, formVars>>

\* a builder as AuthorisationBuilder::new makes it, before any call on it
InitBuilder ==
    /\ now = 0
    /\ state = None
    /\ callback_url = None
    /\ new_pc = "none"
    /\ new_result = None
    /\ token_posts = <<>>
    /\ client = None
    /\ req_pc = "none"
    /\ req_duration = from_secs(0)
    /\ req_self = None
    /\ req_result = None
    /\ api_requests = <<>>
    /\ req_prior = None
    /\ req_trace = <<>>
    /\ calls = 0
    /\ \E entropy_state \in Entropy, entropy_verifier \in Entropy :
          builder = Some(AuthorisationBuilder_new(<<"id">>, entropy_state,
                                                  entropy_verifier))
    /\ builder_call = None
    /\ ops = 0
    /\ store = EmptyStorage
    /\ store_map = EmptyMap
    /\ store_call = None
    /\ hashmap = EmptyStorage
    /\ InitComponents

\* the calls a user of the builder makes
NextBuilder ==
    \/ \E bytes \in StateBytes : Call_session_state(bytes)
    \/ \E bytes \in VerifierBytes : Call_code_verifier(bytes)
    \/ \E url \in CallbackUrlArgs : Call_callback_url(url)
    \/ \E path \in CallbackPathArgs : Call_callback_url_path(path)
    \/ \E scope \in ScopeArgs : Call_authorise_url(scope)
    \/ Call_authorise_url_resume
    \/ Call_authorise_url_drop

SpecBuilder == InitBuilder /\ [][NextBuilder]_vars

\* Serialize for AuthorisationBuilder (the scope through serialize_scopes)
serialize_builder(self) == [self EXCEPT !.scope = String_from_iter(self.scope)]
\* Deserialize for AuthorisationBuilder: fails when the scope string does
deserialize_builder(json) ==
    LET scope == visit_str(json.scope) IN
    IF scope.ok THEN Ok([json EXCEPT !.scope = scope.value])
    ELSE Err("invalid_value")

\* Serialize for AccessToken with the skipped fields written as well
serialize_AccessToken_unskipped(self) ==
    JObj([token |-> JStr(self.token),
          expires_at |-> Duration(self.expires_at.secs, self.expires_at.nanos),
          scope |-> JStr(String_from_iter(self.scope)),
          refresh_token |-> JObj([token |-> JStr(self.refresh_token.token),
                                  client_id |-> JStr(self.refresh_token.client_id)])])

\* Serialize for AccessToken: token and expires_at are #[serde(skip)], the
\* scope goes through serialize_scopes, RefreshToken writes both its fields
serialize_AccessToken(self) ==
    JObj([scope |-> JStr(String_from_iter(self.scope)),
          refresh_token |-> JObj([token |-> JStr(self.refresh_token.token),
                                  client_id |-> JStr(self.refresh_token.client_id)])])

(***************************************************************************)
(* utils::store: SessionStore / LocalStore over the browser's Storage.     *)
(* A value is stored as its JSON text: null, a JSON string, or the object  *)
(* of an AuthorisationBuilder.  T names the value type of the call.        *)
(***************************************************************************)
WebStoreError_Serialisation == "Serialisation"

\* serde_json::to_string(&value) for a value of type T
to_string(T, value) ==
    CASE T = "Option<String>" ->
            IF value = None THEN JNull ELSE JStr(Unwrap(value))
      [] T = "String" -> JStr(value)
      [] OTHER -> JObj(serialize_builder(value))

\* serde_json::from_str::<T>
from_str_T(T, json) ==
    CASE T = "Option<String>" ->
            IF json.t = "null" THEN Ok(None)
            ELSE IF json.t = "str" THEN Ok(Some(json.v))
            ELSE Err("invalid_type")
      [] T = "String" ->
            IF json.t = "str" THEN Ok(json.v) ELSE Err("invalid_type")
      [] OTHER ->
            IF json.t = "obj" THEN deserialize_builder(json.fields)
            ELSE Err("invalid_type")

\* serde_json::from_str::<Option<T>>: null is None, anything else is Some of
\* a T
from_str_Option(T, json) ==
    IF json.t = "null" THEN Ok(None)
    ELSE LET parsed == from_str_T(T, json) IN
         IF parsed.ok THEN Ok(Some(parsed.value))
         ELSE Err(WebStoreError_Serialisation)

\* what get_item gave in insert and remove, deserialized as an Option<T>:
\* Ok(None) when there is no item
stored_value(T, item) ==
    IF item = None THEN Ok(None) ELSE from_str_Option(T, Unwrap(item))

\* what the browser does during one store call: every call into it works, or
\* the storage getter throws, gives no Storage, or one Storage method throws
BrowserOutcomes ==
    {"ok", "access_denied", "no_storage", "get_item_failed", "set_item_failed",
     "remove_item_failed"}

\* $web_store_type::store() followed by get_item: the error, None without one
storage_error(browser) ==
    CASE browser = "access_denied" -> Some("AccessDenied")
      [] browser \in {"no_storage", "get_item_failed"} -> Some("Unknown")
      [] OTHER -> None

\* remove that takes the item out before it deserializes it
web_store_remove_first(browser, storage, T, key) ==
    LET k == key_to_string(key)
        previous == stored_value(T, storage[k])
    IN  IF storage_error(browser) # None
        THEN [storage |-> storage, result |-> Err(Unwrap(storage_error(browser)))]
        ELSE IF browser = "remove_item_failed"
        THEN [storage |-> storage, result |-> Err("Unknown")]
        ELSE [storage |-> [storage EXCEPT ![k] = None], result |-> previous]

\* SeralizedStore::insert of the web stores: [storage |-> the Storage
\* afterwards, result |-> Ok(previous value) or the error]
web_store_insert(browser, storage, T, key, value) ==
    LET k == key_to_string(key)
        previous == stored_value(T, storage[k])
    IN  IF storage_error(browser) # None
        THEN [storage |-> storage, result |-> Err(Unwrap(storage_error(browser)))]
        ELSE IF ~previous.ok THEN [storage |-> storage, result |-> previous]
        ELSE IF browser = "set_item_failed"
        THEN [storage |-> storage, result |-> Err("StorageFull")]
        ELSE [storage |-> [storage EXCEPT ![k] = Some(to_string(T, value))],
              result |-> previous]

\* SeralizedStore::get of the web stores: the item is deserialized as a T and
\* wrapped in Some
web_store_get(browser, storage, T, key) ==
    LET item == storage[key_to_string(key)] IN
    [storage |-> storage,
     result |-> IF storage_error(browser) # None
                THEN Err(Unwrap(storage_error(browser)))
                ELSE IF item = None THEN Ok(None)
                ELSE LET parsed == from_str_T(T, Unwrap(item)) IN
                     IF parsed.ok THEN Ok(Some(parsed.value))
                     ELSE Err(WebStoreError_Serialisation)]

\* SeralizedStore::remove of the web stores: the item stays when its value
\* does not deserialize
web_store_remove(browser, storage, T, key) ==
    LET k == key_to_string(key)
        previous == stored_value(T, storage[k])
    IN  IF storage_error(browser) # None
        THEN [storage |-> storage, result |-> Err(Unwrap(storage_error(browser)))]
        ELSE IF ~previous.ok THEN [storage |-> storage, result |-> previous]
        ELSE IF browser = "remove_item_failed"
        THEN [storage |-> storage, result |-> Err("Unknown")]
        ELSE [storage |-> [storage EXCEPT ![k] = None], result |-> previous]

\* SeralizedStore::insert for HashMap<String, String>: the new text is put in
\* first, then the text it replaced is deserialized as an Option<T>
HashMap_insert(map, T, key, value) ==
    LET k == key_to_string(key) IN
    [storage |-> [map EXCEPT ![k] = Some(to_string(T, value))],
     result |-> stored_value(T, map[k])]

\* SeralizedStore::get for HashMap<String, String>
HashMap_get(map, T, key) ==
    [storage |-> map, result |-> stored_value(T, map[key_to_string(key)])]

\* SeralizedStore::remove for HashMap<String, String>: the text is taken out
\* first, then deserialized
HashMap_remove(map, T, key) ==
    LET k == key_to_string(key) IN
    [storage |-> [map EXCEPT ![k] = None], result |-> stored_value(T, map[k])]

\* ghost record of one store call: what it returned, what a map holding the
\* same entries returns, and what the HashMap store returned for the same call
StoreCall(browser, op, T, key, arg, result, expected, hash_result) ==
    [browser |-> browser, op |-> op, T |-> T, key |-> key, arg |-> arg,
     result |-> result, expected |-> expected, hash_result |-> hash_result]

\* insert(key, value) on a web store; with `both`, the same call is made on
\* the HashMap store as well
Store_insert(both, browser, T, key, value) ==
    /\ LET out == web_store_insert(browser, store, T, key, value)
           hash == HashMap_insert(hashmap, T, key, value)
       IN
       /\ store' = out.storage
       /\ hashmap' = IF both THEN hash.storage ELSE hashmap
       /\ store_map' = IF out.result.ok
                       THEN [store_map EXCEPT ![key] = Some(value)]
                       ELSE store_map
       /\ store_call' = Some(StoreCall(browser, "insert", T, key, Some(value),
                                       out.result, Ok(store_map[key]),
                                       IF both THEN Some(hash.result) ELSE None))
    /\ UNCHANGED <<now, newVars, token_posts, reqVars, builderVars,
                   delayVars, formVars>>

\* get(&key) on a web store, and on the HashMap store with `both`
Store_get(both, browser, T, key) ==
    /\ LET out == web_store_get(browser, store, T, key)
           hash == HashMap_get(hashmap, T, key)
       IN
       /\ store' = out.storage
       /\ hashmap' = IF both THEN hash.storage ELSE hashmap
       /\ store_call' = Some(StoreCall(browser, "get", T, key, None,
                                       out.result, Ok(store_map[key]),
                                       IF both THEN Some(hash.result) ELSE None))
    /\ UNCHANGED <<now, newVars, token_posts, reqVars, builderVars, store_map,
                   delayVars, formVars>>

\* remove(&key) on a web store, and on the HashMap store with `both`
Store_remove(both, browser, T, key) ==
    /\ LET out == web_store_remove(browser, store, T, key)
           hash == HashMap_remove(hashmap, T, key)
       IN
       /\ store' = out.storage
       /\ hashmap' = IF both THEN hash.storage ELSE hashmap
       /\ store_map' = IF out.result.ok
                       THEN [store_map EXCEPT ![key] = None]
                       ELSE store_map
       /\ store_call' = Some(StoreCall(browser, "remove", T, key, None,
                                       out.result, Ok(store_map[key]),
                                       IF both THEN Some(hash.result) ELSE None))
    /\ UNCHANGED <<now, newVars, token_posts, reqVars, builderVars,
                   delayVars, formVars>>

\* Storage::set_item by another writer of the origin's Storage
Storage_set_item(key, json) ==
    /\ store' = [store EXCEPT ![key_to_string(key)] = Some(json)]
    /\ store_call' = Some(StoreCall("ok", "set_item", "raw", key, Some(json),
                                    Ok(None), Ok(None), None))
    /\ UNCHANGED <<now, newVars, token_posts, reqVars, builderVars, store_map,
                   hashmap,delayVars, formVars>>

Code == <<"c", "1">>
\* where the browser comes back to: the callback with code and state, with
\* the state only, with another state, with the code only, with an error, and
\* another origin with code and state
FlowCallbackUrls(st) ==
    {with_query(st.callback_url, pairs) :
        pairs \in {<<<<ParamCode, Code>>, <<ParamState, st.session_state>>>>,
                   <<<<ParamState, st.session_state>>>>,
                   <<<<ParamCode, Code>>, <<ParamState, SessionState>>>>,
                   <<<<ParamCode, Code>>>>,
                   <<<<ParamError, <<"d">>>>, <<ParamState, st.session_state>>>>}}
    \cup {with_query(OtherOrigin \o PathAuthorised,
                     <<<<ParamCode, Code>>, <<ParamState, st.session_state>>>>)}

\* answers of the token endpoint in the flow
FlowOutcomes ==
    {SendFailed,
     Response(400, Some(JsonBody([error |-> JStr("invalid_grant")]))),
     Response(200, Some(JsonBody([access_token |-> JStr("at2"),
                                  token_type |-> JStr("Bearer"),
                                  expires_in |-> JInt(3),
                                  refresh_token |-> JStr("rt2")])))}

\* what the browser does during the store calls of the flow
FlowBrowserOutcomes == {"ok", "access_denied", "set_item_failed", "remove_item_failed"}

NoAuthorizationState == [variant |-> "NoAuthorizationState"]
AuthorizationError_Store(e) == [variant |-> "Store", error |-> e]

\* what browser_location() gives when the Authorised page is opened: a callback
\* for the pending authorization, or for the one last used
BrowserLocations ==
    LET pending == web_store_get("ok", store, "AuthorisationBuilder",
                                 "AuthorisationBuilder").result
    IN  IF pending.ok /\ pending.value # None
        THEN FlowCallbackUrls(Unwrap(pending.value))
        ELSE IF state # None THEN FlowCallbackUrls(state)
        ELSE {with_path(from_browser_location, <<Segment_authorised>>)}

\* a handling of the callback that sends the token request for whatever code
\* the URL carries before it checks the URL
Authorised_create_request_first(url, browser) ==
    /\ new_pc \in {"none", "returned"}
    /\ LET removed == web_store_remove(browser, store, "AuthorisationBuilder",
                                       "AuthorisationBuilder")
       IN
       /\ store' = removed.storage
       /\ IF ~removed.result.ok
          THEN /\ new_result' = Some(Err(AuthorizationError_Store(removed.result.error)))
               /\ new_pc' = "returned"
               /\ UNCHANGED <<state, callback_url, token_posts>>
          ELSE IF removed.result.value = None
          THEN /\ new_result' = Some(Err(NoAuthorizationState))
               /\ new_pc' = "returned"
               /\ UNCHANGED <<state, callback_url, token_posts>>
          ELSE LET auth_builder == Unwrap(removed.result.value)
                   checked == new_callback_checks(auth_builder, url)
                   code == HashMapGet(query_pairs(url), ParamCode)
               IN  /\ state' = auth_builder
                   /\ callback_url' = Some(url)
                   /\ token_posts' =
                         Append(token_posts,
                                new_form(auth_builder,
                                         IF code = None THEN <<>> ELSE Unwrap(code)))
                   /\ IF checked.ok
                      THEN /\ new_pc' = "request_await"
                           /\ new_result' = None
                      ELSE /\ new_pc' = "returned"
                           /\ new_result' = Some(Err(checked.error))
    /\ UNCHANGED <<now, reqVars, builderVars, store_map, store_call, hashmap,delayVars, formVars>>

\* Authorised::create, up to the first await of its future: the pending
\* authorization is removed from the session store and AccessToken::new runs
\* on it up to the token request.  new_result holds what the page gets: the
\* page's own errors, or the result of AccessToken::new.
Authorised_create(url, browser) ==
    /\ new_pc \in {"none", "returned"}
    /\ LET removed == web_store_remove(browser, store, "AuthorisationBuilder",
                                       "AuthorisationBuilder")
       IN
       /\ store' = removed.storage
       /\ IF ~removed.result.ok
          THEN /\ new_result' = Some(Err(AuthorizationError_Store(removed.result.error)))
               /\ new_pc' = "returned"
               /\ UNCHANGED <<state, callback_url, token_posts>>
          ELSE IF removed.result.value = None
          THEN /\ new_result' = Some(Err(NoAuthorizationState))
               /\ new_pc' = "returned"
               /\ UNCHANGED <<state, callback_url, token_posts>>
          ELSE LET auth_builder == Unwrap(removed.result.value)
                   checked == new_callback_checks(auth_builder, url)
               IN  /\ state' = auth_builder
                   /\ callback_url' = Some(url)
                   /\ IF checked.ok
                      THEN /\ token_posts' =
                                Append(token_posts,
                                       new_form(auth_builder, checked.value))
                           /\ new_pc' = "request_await"
                           /\ new_result' = None
                      ELSE /\ token_posts' = token_posts
                           /\ new_pc' = "returned"
                           /\ new_result' = Some(Err(checked.error))
    /\ UNCHANGED <<now, reqVars, builderVars, store_map, store_call, hashmap,delayVars, formVars>>

\* the scope property of the AuthorisationForm: the Login page gives none, so
\* it is the default, the empty list
FormScope == <<>>

\* the session store when the Authorised page is opened: empty, or holding a
\* pending authorization written by new_url
InitExchange ==
    /\ now = 0
    /\ state = None
    /\ callback_url = None
    /\ new_pc = "none"
    /\ new_result = None
    /\ token_posts = <<>>
    /\ client = None
    /\ req_pc = "none"
    /\ req_duration = from_secs(0)
    /\ req_self = None
    /\ req_result = None
    /\ api_requests = <<>>
    /\ req_prior = None
    /\ req_trace = <<>>
    /\ calls = 0
    /\ builder = None
    /\ builder_call = None
    /\ ops = 0
    /\ store \in {EmptyStorage}
                 \cup {web_store_insert("ok", EmptyStorage, "AuthorisationBuilder",
                                        "AuthorisationBuilder", st).storage
                          : st \in {b \in States : b.scope = FormScope}}
    /\ store_map = EmptyMap
    /\ store_call = None
    /\ hashmap = EmptyStorage
    /\ InitComponents

(***************************************************************************)
(* The Authorised page: AccessToken::new on the callback, every answer of  *)
(* the token endpoint, and the Client made from the result                 *)
(***************************************************************************)
\* Authorised::update on UpdateAccessToken: a Client is emitted for Ok, the
\* error is kept for the view otherwise
Authorised_update ==
    /\ new_pc = "returned"
    /\ new_pc' = "updated"
    /\ client' = IF Unwrap(new_result).ok
                 THEN Client_new(Unwrap(new_result).value)
                 ELSE client
    /\ UNCHANGED <<now, state, callback_url, new_result, token_posts, req_pc,
                   req_duration, req_self, req_result, api_requests, req_prior,
                   req_trace, calls, builderVars, storeVars, delayVars, formVars>>

\* the callbacks the page is opened on: the right state and a code on either
\* callback path, and one without a code
ExchangeCallbackUrls ==
    {with_query(base, <<<<ParamCode, Code>>, <<ParamState, SessionState>>>>)
        : base \in PersistedCallbackUrls}
    \cup {with_query(Origin \o PathAuthorised, <<<<ParamState, SessionState>>>>)}

NextExchange ==
    \/ \E url \in ExchangeCallbackUrls, browser \in FlowBrowserOutcomes :
          Authorised_create(url, browser)
    \/ \E outcome \in Outcomes(TokenBodies) : AccessToken_new_response(outcome)
    \/ Authorised_update
    \/ Tick

SpecExchange == InitExchange /\ [][NextExchange]_vars

(***************************************************************************)
(* The app from the callback on: the exchange on the Authorised page, the  *)
(* Client it emits, and Client::request calls on that Client               *)
(***************************************************************************)
\* App::update on NewClient: the app holds the Client, which can now be used
App_update ==
    /\ new_pc = "updated"
    /\ client # None
    /\ req_pc = "none"
    /\ req_pc' = "idle"
    /\ UNCHANGED <<now, newVars, token_posts, client, req_duration, req_self,
                   req_result, api_requests, req_prior, req_trace, calls,
                   builderVars, storeVars, delayVars, formVars>>

\* the pending authorization of a login made on the Login page
InitApp ==
    /\ InitExchange
    /\ \E st \in States :
          /\ st.callback_url = Origin \o PathAuthorised
          /\ st.scope = FormScope
          /\ store[key_to_string("AuthorisationBuilder")]
                = Some(to_string("AuthorisationBuilder", st))

NextApp ==
    \/ \E url \in ExchangeCallbackUrls, browser \in FlowBrowserOutcomes :
          Authorised_create(url, browser)
    \/ \E outcome \in FlowOutcomes : AccessToken_new_response(outcome)
    \/ Authorised_update
    \/ App_update
    \/ \E duration \in Durations : Client_request(duration)
    \/ \E outcome \in Outcomes(TokenBodies) : Client_request_refreshed(outcome)
    \/ \E outcome \in Outcomes(ApiBodies) : Client_request_response(outcome)
    \/ Client_request_drop
    \/ Tick

SpecApp == InitApp /\ [][NextApp]_vars

(***************************************************************************)
(* The web stores on their own: one value type, a few keys and values, and *)
(* stored builders whose scope lists and scope strings vary                *)
(***************************************************************************)
MaxScopes == 2
\* the scopes the enumerated lists are made of
ListedScopes == {"AppRemoteControl", "PlaylistModifyPrivate", "UserReadEmail"}
\* every ordered list of up to MaxScopes of these scopes, repeats included;
\* each scope on its own; and the longest list of the scope tests
ScopeLists ==
    UNION {[1..n -> ListedScopes] : n \in 0..MaxScopes}
    \cup {<<sc>> : sc \in Scopes}
    \cup {<<"AppRemoteControl", "PlaylistModifyPrivate", "PlaylistModifyPublic">>}
\* the builders stored: one per scope list
ScopedBuilders ==
    {[client_id |-> "id",
      callback_url |-> Origin \o PathAuthorised,
      scope |-> scope,
      session_state |-> SessionState,
      code_verifier |-> "verifier"] : scope \in ScopeLists}
\* scope strings no serialize_scopes wrote: leading, trailing and doubled
\* spaces, unknown words, another case, another separator
RawScopes ==
    {<<" ">>,
     <<"user-read-email", " ">>,
     <<" ", "user-read-email">>,
     <<"user-read-email", " ", " ", "app-remote-control">>,
     <<"bogus">>,
     <<"user-read-email", " ", "bogus">>,
     <<"User-Read-Email">>,
     <<"streaming", " ", "user-top-read">>,
     <<"user-read-email", ",", "app-remote-control">>}

\* the Value type parameter the stores are called with (any serializable type:
\* here an optional string, so that a stored value can itself be None), the
\* values inserted, and the keys (those of the store tests)
ValueType == "Option<String>"
StoreValues == {None, Some("value-1"), Some("value-2")}
TestKeys == {"key-1", "key-2"}

InitStore ==
    /\ now = 0
    /\ state = None
    /\ callback_url = None
    /\ new_pc = "none"
    /\ new_result = None
    /\ token_posts = <<>>
    /\ client = None
    /\ req_pc = "none"
    /\ req_duration = from_secs(0)
    /\ req_self = None
    /\ req_result = None
    /\ api_requests = <<>>
    /\ req_prior = None
    /\ req_trace = <<>>
    /\ calls = 0
    /\ builder = None
    /\ builder_call = None
    /\ ops = 0
    /\ store = EmptyStorage
    /\ store_map = EmptyMap
    /\ store_call = None
    /\ hashmap = EmptyStorage
    /\ InitComponents

NextStore ==
    \/ \E key \in TestKeys, value \in StoreValues :
          Store_insert(FALSE, "ok", ValueType, key, value)
    \/ \E key \in TestKeys : Store_get(FALSE, "ok", ValueType, key)
    \/ \E key \in TestKeys : Store_remove(FALSE, "ok", ValueType, key)

SpecStore == InitStore /\ [][NextStore]_vars

NextScopes ==
    \/ \E self \in ScopedBuilders :
          Store_insert(FALSE, "ok", "AuthorisationBuilder", "AuthorisationBuilder", self)
    \/ \E self \in {b \in ScopedBuilders : b.scope = <<>>}, raw \in RawScopes :
          Storage_set_item("AuthorisationBuilder",
                           JObj([serialize_builder(self) EXCEPT !.scope = raw]))
    \/ Store_get(FALSE, "ok", "AuthorisationBuilder", "AuthorisationBuilder")
    \/ Store_remove(FALSE, "ok", "AuthorisationBuilder", "AuthorisationBuilder")

SpecScopes == InitStore /\ [][NextScopes]_vars

\* the value types of the calls that read an entry with another type than the
\* one it was written with, and the values written for each
StoreTypes == {"String", "AuthorisationBuilder"}
TypedValues(T) ==
    IF T = "String" THEN {"value-1"}
    ELSE {self \in ScopedBuilders : self.scope = <<>>}

\* a web store called with either value type while the browser may fail
NextStoreErrors ==
    \/ \E browser \in BrowserOutcomes, T \in StoreTypes, key \in TestKeys :
          \E value \in TypedValues(T) : Store_insert(FALSE, browser, T, key, value)
    \/ \E browser \in BrowserOutcomes, T \in StoreTypes, key \in TestKeys :
          Store_get(FALSE, browser, T, key)
    \/ \E browser \in BrowserOutcomes, T \in StoreTypes, key \in TestKeys :
          Store_remove(FALSE, browser, T, key)

SpecStoreErrors == InitStore /\ [][NextStoreErrors]_vars

\* the same calls made on a web store whose browser works and on a HashMap
NextStores ==
    \/ \E T \in StoreTypes, key \in TestKeys :
          \E value \in TypedValues(T) : Store_insert(TRUE, "ok", T, key, value)
    \/ \E T \in StoreTypes, key \in TestKeys : Store_get(TRUE, "ok", T, key)
    \/ \E T \in StoreTypes, key \in TestKeys : Store_remove(TRUE, "ok", T, key)

SpecStores == InitStore /\ [][NextStores]_vars

(***************************************************************************)
(* The AuthorisationForm component: every change of the client id input    *)
(* starts a new_url future; the future builds the authorisation URL, puts  *)
(* its builder in the session store and sends UpdateUrl to the component.  *)
(***************************************************************************)
MaxChanges == 3
\* what the entropy source gives for the session state of each builder
FormEntropy == {Bytes(96, 77), Bytes(96, 78)}
\* the client ids typed into the input
ClientIds == {<<"id">>}

UrlError_WebStore(err) == [variant |-> "WebStore", error |-> err]

\* the onchange callback of the client id input: send_future(new_url(..)) and
\* Message::IsLoading, whose update sets loading.  new_url makes its builder
\* and waits for authorise_url.
Form_onchange(client_id, entropy_state, entropy_verifier) ==
    /\ changes < MaxChanges
    /\ changes' = changes + 1
    /\ computations' =
          Append(computations,
                 AuthorisationBuilder_new(client_id, entropy_state, entropy_verifier))
    /\ form' = [form EXCEPT !.loading = TRUE]
    /\ UNCHANGED <<now, newVars, token_posts, reqVars, builderVars, storeVars,
                   delayVars>>

\* update on UpdateUrl keeping the loading mark while another new_url future
\* is in flight
NewUrl_complete_while_loading(i, browser) ==
    /\ i \in 1..Len(computations)
    /\ LET out == AuthorisationBuilder_authorise_url(computations[i], FormScope)
           inserted == web_store_insert(browser, store, "AuthorisationBuilder",
                                        "AuthorisationBuilder", out.self)
       IN
       /\ store' = inserted.storage
       /\ form' = [auth_url |-> Some(IF inserted.result.ok THEN Ok(out.url)
                                     ELSE Err(UrlError_WebStore(inserted.result.error))),
                   loading |-> Len(computations) > 1]
    /\ computations' = [j \in 1..(Len(computations) - 1) |->
                          IF j < i THEN computations[j] ELSE computations[j + 1]]
    /\ UNCHANGED <<now, newVars, token_posts, reqVars, builderVars, store_map,
                   store_call, hashmap, delayVars, changes>>

\* a new_url future completes: authorise_url has resolved, the builder goes
\* into the session store, and update runs on UpdateUrl: auth_url is set and
\* loading cleared
NewUrl_complete(i, browser) ==
    /\ i \in 1..Len(computations)
    /\ LET out == AuthorisationBuilder_authorise_url(computations[i], FormScope)
           inserted == web_store_insert(browser, store, "AuthorisationBuilder",
                                        "AuthorisationBuilder", out.self)
       IN
       /\ store' = inserted.storage
       /\ form' = [auth_url |-> Some(IF inserted.result.ok THEN Ok(out.url)
                                     ELSE Err(UrlError_WebStore(inserted.result.error))),
                   loading |-> FALSE]
    /\ computations' = [j \in 1..(Len(computations) - 1) |->
                          IF j < i THEN computations[j] ELSE computations[j + 1]]
    /\ UNCHANGED <<now, newVars, token_posts, reqVars, builderVars, store_map,
                   store_call, hashmap, delayVars, changes>>

NextForm ==
    \/ \E client_id \in ClientIds, entropy_state \in FormEntropy,
          entropy_verifier \in Entropy :
          Form_onchange(client_id, entropy_state, entropy_verifier)
    \/ \E i \in 1..MaxChanges, browser \in BrowserOutcomes :
          NewUrl_complete(i, browser)

SpecForm == InitStore /\ [][NextForm]_vars

(***************************************************************************)
(* The authorisation flow of the app: the form's new_url futures put their *)
(* builders in the session store, and the Authorised page takes the        *)
(* pending authorization out and calls AccessToken::new on the callback.   *)
(***************************************************************************)
NextFlow ==
    \/ \E client_id \in ClientIds, entropy \in FormEntropy :
          Form_onchange(client_id, entropy, entropy)
    \/ \E i \in 1..MaxChanges, browser \in FlowBrowserOutcomes \ {"remove_item_failed"} :
          NewUrl_complete(i, browser)
    \/ \E url \in BrowserLocations, browser \in FlowBrowserOutcomes \ {"set_item_failed"} :
          Authorised_create(url, browser)
    \/ \E outcome \in FlowOutcomes : AccessToken_new_response(outcome)
    \/ Tick

SpecFlow == InitStore /\ [][NextFlow]_vars

(***************************************************************************)
(* utils::delay: DelayedFn and TrackedDelayedFn over the browser's         *)
(* setTimeout.  Time is counted in milliseconds here.                      *)
(***************************************************************************)
I32_MAX == 2147483647
MaxDelay == 2
\* the durations a delayed function is created with
DelayDurations == 0..MaxDelay
\* the functions delayed: one that counts its calls, and one that counts and
\* then calls stop() on its own handle
Closures == {"counts", "stops_itself"}

\* DelayedFn::new_js: the duration in milliseconds, i32::MAX when it does not
\* fit an i32
delay_ms(duration) == IF duration > I32_MAX THEN I32_MAX ELSE duration

\* window.setTimeout(function, delay_ms)
set_timeout(delay) == [due |-> now + delay, status |-> "pending"]

\* window.clearTimeout(id): a timeout that already fired is left alone
clear_timeout(t) ==
    IF t.status = "pending" THEN [t EXCEPT !.status = "cleared"] ELSE t

\* TrackedDelayedFn::is_executed: tracker_fn borrows `executed` mutably only
\* for the assignment itself, so try_borrow finds it free
is_executed(self) == Some(self.executed)

\* TrackedDelayedFn::is_stopped
is_stopped(self) == self.stopped

\* TrackedDelayedFn::stop: [self |-> the handle afterwards, timer |-> the
\* browser's timeout afterwards, returned |-> the value returned]
TrackedDelayedFn_stop(self, t) ==
    IF is_executed(self) = Some(FALSE)
    THEN [self |-> [self EXCEPT !.stopped = TRUE],
          timer |-> clear_timeout(t),
          returned |-> TRUE]
    ELSE [self |-> self, timer |-> t, returned |-> is_stopped(self)]

\* ghost record of one stop(): what is_executed() gave when it was called,
\* the call count at that moment and the value returned
StopCall(executed, count, returned) ==
    [executed |-> executed, fn_calls |-> count, returned |-> returned]

\* DelayedFn::new_mut / TrackedDelayedFn::new, made while the clock of the
\* model can still reach the moment the timeout is due
DelayedFn_new(tracked, closure, duration) ==
    /\ delayed = None
    /\ now + delay_ms(duration) <= MaxTime
    /\ timer' = Some(set_timeout(delay_ms(duration)))
    /\ delayed' = Some([tracked |-> tracked, closure |-> closure,
                        executed |-> FALSE, stopped |-> FALSE])
    /\ UNCHANGED <<fn_calls, stop_call>>
    /\ UNCHANGED <<now, newVars, token_posts, reqVars, builderVars, storeVars,
                   formVars>>

\* a timeout that stays set after it fired, as setInterval's does
Timeout_fire_interval ==
    /\ timer # None
    /\ Unwrap(timer).status = "pending"
    /\ now >= Unwrap(timer).due
    /\ fn_calls < 2
    /\ fn_calls' = fn_calls + 1
    /\ delayed' = Some([Unwrap(delayed) EXCEPT
                           !.executed = Unwrap(delayed).tracked])
    /\ UNCHANGED <<timer, stop_call>>
    /\ UNCHANGED <<now, newVars, token_posts, reqVars, builderVars, storeVars,
                   formVars>>

\* the browser runs the timeout's callback: function() is called, with a
\* stop() of its own handle inside when the closure makes one, and tracker_fn
\* then sets `executed`
Timeout_fire ==
    /\ timer # None
    /\ Unwrap(timer).status = "pending"
    /\ now >= Unwrap(timer).due
    /\ LET self == Unwrap(delayed)
           fired == [Unwrap(timer) EXCEPT !.status = "fired"]
           inside == IF self.closure = "stops_itself"
                     THEN TrackedDelayedFn_stop(self, fired)
                     ELSE [self |-> self, timer |-> fired, returned |-> FALSE]
       IN
       /\ fn_calls' = fn_calls + 1
       /\ timer' = Some(inside.timer)
       /\ delayed' = Some([inside.self EXCEPT !.executed = self.tracked])
       /\ stop_call' = IF self.closure = "stops_itself"
                       THEN Some(StopCall(is_executed(self), fn_calls + 1,
                                          inside.returned))
                       ELSE stop_call
    /\ UNCHANGED <<now, newVars, token_posts, reqVars, builderVars, storeVars,
                   formVars>>

\* stop() is called on a TrackedDelayedFn
Tracked_stop ==
    /\ delayed # None
    /\ Unwrap(delayed).tracked
    /\ LET out == TrackedDelayedFn_stop(Unwrap(delayed), Unwrap(timer)) IN
       /\ delayed' = Some(out.self)
       /\ timer' = Some(out.timer)
       /\ stop_call' = Some(StopCall(is_executed(Unwrap(delayed)), fn_calls,
                                     out.returned))
    /\ UNCHANGED fn_calls
    /\ UNCHANGED <<now, newVars, token_posts, reqVars, builderVars, storeVars,
                   formVars>>

\* DelayedFn::stop
DelayedFn_stop ==
    /\ delayed # None
    /\ ~Unwrap(delayed).tracked
    /\ timer' = Some(clear_timeout(Unwrap(timer)))
    /\ stop_call' = Some(StopCall(None, fn_calls, FALSE))
    /\ UNCHANGED <<delayed, fn_calls>>
    /\ UNCHANGED <<now, newVars, token_posts, reqVars, builderVars, storeVars,
                   formVars>>

\* a millisecond passes
Time_passes ==
    /\ now < MaxTime
    /\ now' = now + 1
    /\ UNCHANGED <<newVars, token_posts, reqVars, builderVars, storeVars,
                   delayVars, formVars>>

NextDelay ==
    \/ \E duration \in DelayDurations : DelayedFn_new(FALSE, "counts", duration)
    \/ \E closure \in Closures, duration \in DelayDurations :
          DelayedFn_new(TRUE, closure, duration)
    \/ Timeout_fire
    \/ Tracked_stop
    \/ DelayedFn_stop
    \/ Time_passes

SpecDelay == InitStore /\ [][NextDelay]_vars

\* the browser's event loop runs a due timeout, and time does not stand still
SpecDelayFair ==
    /\ InitStore
    /\ [][NextDelay]_vars
    /\ WF_vars(Timeout_fire)
    /\ WF_vars(Time_passes)

(***************************************************************************)
(* Properties of the callback validation                                   *)
(***************************************************************************)
\* AccessToken::new has been called on a URL
Called == callback_url # None
Url == Unwrap(callback_url)
\* the parameters of the callback URL: name |-> value (None when absent)
Params ==
    LET pairs == query_pairs(Url) IN
    [name \in ParamNames |-> HashMapGet(pairs, name)]
NewReturned(result) == new_pc = "returned" /\ new_result = Some(result)
\* the persisted callback_url followed by anything
ExtendsPersisted == \E n \in 0..Len(Url) : SubSeq(Url, 1, n) = state.callback_url
\* the call went on to the token request
Accepted == token_posts # <<>>

\* C1: a callback URL with an `error` parameter of value X makes
\* AccessToken::new return Err(CallbackUrl(LoginError(X))), whatever the
\* `state` parameter is and whether or not `code` is present (X is the value
\* the URL's parameter map holds for `error`).
C1_ErrorGivesLoginError ==
    Called =>
        LET param == Params IN
        IsSome(param[ParamError])
            => NewReturned(Err(CallbackUrl(LoginError(Unwrap(param[ParamError])))))

\* an `error` next to the right state and a code: still LoginError
C1_Witness ==
    /\ Called
    /\ Params[ParamError] = Some(<<"a", " ", "b">>)
    /\ Params[ParamState] = Some(state.session_state)
    /\ IsSome(Params[ParamCode])
    /\ NewReturned(Err(CallbackUrl(LoginError(<<"a", " ", "b">>))))

\* C2: without `error`, a `state` parameter that differs from the persisted
\* session_state gives StateMismatch{expected: session_state, received: the
\* URL's state value}, whether or not `code` is present.
C2_WrongStateGivesStateMismatch ==
    Called =>
        LET param == Params IN
        (/\ param[ParamError] = None
         /\ IsSome(param[ParamState])
         /\ Unwrap(param[ParamState]) # state.session_state)
            => NewReturned(Err(CallbackUrl(StateMismatch(
                   [expected |-> state.session_state,
                    received |-> Unwrap(param[ParamState])]))))

C2_Witness ==
    /\ Called
    /\ Params[ParamError] = None
    /\ Params[ParamState] = Some(<<"a", " ", "b">>)
    /\ IsSome(Params[ParamCode])
    /\ new_pc = "returned"
    /\ Unwrap(new_result).error.error.variant = "StateMismatch"

\* C3: a callback URL with neither `error` nor `state` gives StateMissing,
\* whether or not `code` is present.
C3_NoStateGivesStateMissing ==
    Called =>
        LET param == Params IN
        (param[ParamError] = None /\ param[ParamState] = None)
            => NewReturned(Err(CallbackUrl(StateMissing)))

C3_Witness ==
    /\ Called
    /\ Params[ParamError] = None
    /\ Params[ParamState] = None
    /\ IsSome(Params[ParamCode])
    /\ NewReturned(Err(CallbackUrl(StateMissing)))

\* C4: without `error`, with the right `state` and without `code`, the
\* result is CodeMissing.
C4_NoCodeGivesCodeMissing ==
    Called =>
        LET param == Params IN
        (/\ param[ParamError] = None
         /\ param[ParamState] = Some(state.session_state)
         /\ param[ParamCode] = None)
            => NewReturned(Err(CallbackUrl(CodeMissing)))

C4_Witness ==
    /\ Called
    /\ Params[ParamState] = Some(state.session_state)
    /\ Params[ParamCode] = None
    /\ ExtendsPersisted
    /\ NewReturned(Err(CallbackUrl(CodeMissing)))

\* C5: a callback URL that passes the error, state and code checks gives
\* UrlMismatch{expected: persisted callback_url, received: the URL} exactly
\* when its string form does not start with the persisted callback_url; one
\* that extends the persisted URL (query string, trailing path) is accepted
\* and the token request is made.
C5_UrlMismatchIffNotPrefix ==
    Called =>
        LET param == Params IN
        (/\ param[ParamError] = None
         /\ param[ParamState] = Some(state.session_state)
         /\ IsSome(param[ParamCode]))
            => /\ NewReturned(Err(CallbackUrl(UrlMismatch(
                      [expected |-> state.callback_url, received |-> Url]))))
                  <=> ~ExtendsPersisted
               /\ ExtendsPersisted => Accepted

\* a URL below the persisted callback path, with a query string, is accepted
C5_Witness ==
    /\ Called
    /\ state.callback_url = Origin \o PathAuthorised
    /\ starts_with(Url, Origin \o PathAuthorised \o PathExtra \o <<"?">>)
    /\ Accepted

\* C6: the error AccessToken::new returns is that of the first failing check
\* in the order error present, state missing, state mismatch, code missing,
\* URL prefix mismatch; when no check fails the token request is made.
C6_FirstFailingCheckWins ==
    Called =>
        LET param == Params
            failed == <<IsSome(param[ParamError]),
                        param[ParamState] = None,
                        param[ParamState] # Some(state.session_state),
                        param[ParamCode] = None,
                        ~ExtendsPersisted>>
            variants == <<"LoginError", "StateMissing", "StateMismatch",
                          "CodeMissing", "UrlMismatch">>
            first == {i \in 1..5 : failed[i] /\ \A j \in 1..(i - 1) : ~failed[j]}
        IN  IF first = {} THEN Accepted
            ELSE /\ ~Accepted
                 /\ new_pc = "returned"
                 /\ \A i \in first :
                      Unwrap(new_result).error.error.variant = variants[i]

\* wrong state, no code and a URL of another origin: StateMismatch
C6_Witness ==
    /\ Called
    /\ Params[ParamError] = None
    /\ IsSome(Params[ParamState])
    /\ Params[ParamState] # Some(state.session_state)
    /\ Params[ParamCode] = None
    /\ ~ExtendsPersisted
    /\ Unwrap(new_result).error.error.variant = "StateMismatch"

(***************************************************************************)
(* Properties of Client::request                                           *)
(***************************************************************************)
Prior == Unwrap(req_prior)
\* the Client::request call in progress (or last made) has done exactly this
Did(trace) == req_trace = trace
LastPost == token_posts[Len(token_posts)]
LastRequest == api_requests[Len(api_requests)]
\* access tokens a token response can carry
ResponseAccessTokens ==
    {b.fields.access_token.v : b \in {x \in TokenBodies : IsStr(x.fields, "access_token")}}
\* a complete refreshed credential of p: p with a new access token and expiry
IsRefreshOf(t, p) ==
    /\ t.refresh_token = p.refresh_token
    /\ t.scope = p.scope
    /\ t.token \in ResponseAccessTokens

\* C7: when the held credential is not valid for the expected duration and
\* the refresh fails, Client::request returns the refresh error, sends no API
\* request, and the Client still holds the prior credential (same access
\* token, expires_at, scope, refresh token and client id).
C7_FailedRefreshKeepsCredential ==
    (req_pc = "returned" /\ Did(<<"refresh_sent", "refresh_failed">>))
        => /\ IsSome(req_result) /\ ~Unwrap(req_result).ok
           /\ client.token = Prior

\* C8: every API request sent by Client::request carries as bearer the access
\* token of the credential the Client holds when it is sent, and that
\* credential was valid for the expected duration at that point of the call
\* (after the refresh if there was one); while the request is in flight the
\* Client still holds that credential.
C8_RequestsCarryValidBearer ==
    /\ \A i \in 1..Len(api_requests) :
          /\ api_requests[i].req.bearer = api_requests[i].held.token
          /\ api_requests[i].valid
    /\ req_pc = "request_await" => LastRequest.held = client.token

\* an API request sent after a refresh, with the refreshed access token
C8_Witness ==
    /\ req_pc = "request_await"
    /\ Did(<<"refresh_sent", "refreshed", "request_sent">>)
    /\ LastRequest.req.bearer = "at2"
    /\ client.token.token = "at2"
    /\ Prior.token = "at1"

\* C9: when the Client::request future is dropped while the refresh is
\* suspended, the Client holds either the complete prior credential or a
\* complete refreshed one, never another value.
C9_DroppedRefreshKeepsCredential ==
    (req_pc = "dropped" /\ Did(<<"refresh_sent", "dropped">>))
        => \/ client.token = Prior
           \/ IsRefreshOf(client.token, Prior)

\* C10: AccessToken::refresh posts grant_type=refresh_token, refresh_token =
\* the stored refresh token of the credential it is called on, and client_id
\* = the client id bound to that refresh token.
C10_RefreshPostsRefreshToken ==
    req_pc = "refresh_await"
        => /\ LastPost.grant_type = "refresh_token"
           /\ LastPost.refresh_token = Unwrap(req_self).refresh_token.token
           /\ LastPost.client_id = Unwrap(req_self).refresh_token.client_id

(***************************************************************************)
(* Properties of AccessToken::refresh and is_valid_for                     *)
(***************************************************************************)
\* the fields of the body of a response
BodyFields(outcome) == Unwrap(outcome.text).fields

\* C11: a successful AccessToken::refresh returns a credential whose refresh
\* token, client id and scope are those of the credential it was called on,
\* and whose access token and expires_at come from the refresh response
\* (expires_at = time of the response + its expires_in); this is so for every
\* refresh of a behaviour, the second of two successive ones included.
C11_RefreshKeepsRefreshTokenAndScope ==
    [][\A outcome \in Outcomes(TokenBodies) :
          (Client_request_refreshed(outcome) /\ req_trace'[2] = "refreshed")
              => LET self == Unwrap(req_self)
                     returned == client'.token
                     expires_in == BodyFields(outcome).expires_in.fields
                 IN  /\ returned.refresh_token.token = self.refresh_token.token
                     /\ returned.refresh_token.client_id = self.refresh_token.client_id
                     /\ returned.scope = self.scope
                     /\ returned.token = BodyFields(outcome).access_token.v
                     /\ returned.expires_at.secs =
                          now + expires_in.secs.v + expires_in.nanos.v \div 1000000000
                     /\ returned.expires_at.nanos =
                          expires_in.nanos.v % 1000000000]_vars

\* the second of two successive refreshes: the credential refreshed once is
\* refreshed again and still has the first refresh token, client id and scope
C11_Witness ==
    /\ calls = 2
    /\ req_trace # <<>> /\ Len(req_trace) >= 2 /\ req_trace[2] = "refreshed"
    /\ Prior.token = "at2"
    /\ client.token.token = "at2"
    /\ client.token.refresh_token = RefreshToken("rt1", "id")
    /\ client.token.scope = <<"UserReadEmail">>
    /\ client.token.expires_at = from_secs(now + 3)

\* C12: is_valid_for(lookahead) is true exactly when now < expires_at -
\* lookahead; when the subtraction would go below the time origin, and for
\* every credential with expires_at <= now (AccessToken::default() included),
\* it is false for every lookahead, zero included.  Client::request refreshes
\* exactly when it is false.
C12_ValidIffBeforeExpiryMinusLookahead ==
    /\ [](client # None =>
            \A lookahead \in Durations :
               LET t == client.token IN
               /\ is_valid_for(t, lookahead)
                     <=> (/\ ~lt(t.expires_at, lookahead)
                          /\ lt(add(Instant_now, lookahead), t.expires_at))
               /\ ~lt(Instant_now, t.expires_at) => ~is_valid_for(t, lookahead)
               /\ ~is_valid_for(AccessToken_default, lookahead))
    /\ [][\A lookahead \in Durations :
            Client_request(lookahead)
               => (req_pc' = "refresh_await"
                     <=> ~lt(add(Instant_now, lookahead),
                             client.token.expires_at))]_vars

\* a lookahead beyond the expires_at of a credential that has not expired
\* yet (the subtraction underflows) made the call refresh
C12_Witness ==
    /\ Did(<<"refresh_sent">>)
    /\ lt(Prior.expires_at, req_duration)
    /\ lt(Instant_now, Prior.expires_at)

(***************************************************************************)
(* Properties of the authorisation flow                                    *)
(***************************************************************************)
\* the item of the session store under StoreKeys::AuthorisationBuilder
Pending == store[key_to_string("AuthorisationBuilder")]
\* the view shows an authorisation URL and its submit button is enabled
ShowsUrl ==
    /\ ~form.loading
    /\ form.auth_url # None
    /\ Unwrap(form.auth_url).ok

\* the last builder operation
LastCall == Unwrap(builder_call)
Made(op) == builder_call # None /\ LastCall.op = op
\* the value of a query parameter of the URL authorise_url returned
AuthParam(name) == HashMapGet(query_pairs(Unwrap(LastCall.url)), name)

\* position of a character in the URL-safe alphabet, from 0
AlphabetIndex(c) == (CHOOSE k \in 1..64 : URL_SAFE[k] = c) - 1
\* the bytes an unpadded base64 string stands for
Decoded(chars) ==
    [j \in 1..((Len(chars) * 6) \div 8) |->
        LET q == (8 * (j - 1)) \div 6 + 1
            r == (8 * (j - 1)) % 6
        IN  ((AlphabetIndex(chars[q]) * 64 + AlphabetIndex(chars[q + 1]))
                \div (2 ^ (4 - r))) % 256]
\* chars is the unpadded URL-safe base64 encoding of bytes
Encodes(chars, bytes) ==
    /\ Len(chars) = (Len(bytes) * 4 + 2) \div 3
    /\ \A i \in 1..Len(chars) : \E k \in 1..64 : URL_SAFE[k] = chars[i]
    /\ Decoded(chars) = bytes

\* C13: when a callback passes validation, the exchange POST carries
\* grant_type=authorization_code, code = the callback's `code`, redirect_uri =
\* the persisted callback_url, client_id = the persisted client id and
\* code_verifier = the persisted code verifier, the persisted values being
\* those of the pending authorization taken from the session store; and every
\* pending authorization a new_url persists is persisted with the URL that
\* authorise_url built from it, so that the verifier posted for it hashes to
\* that URL's code_challenge and the posted redirect_uri is that URL's
\* redirect_uri.
C13_ExchangePostBindsVerifier ==
    [][/\ token_posts' # token_posts
          => LET post == token_posts'[Len(token_posts')]
                 persisted == Unwrap(stored_value("AuthorisationBuilder",
                                                  Pending).value)
             IN  /\ post.grant_type = "authorization_code"
                 /\ Some(post.code)
                       = HashMapGet(query_pairs(Unwrap(callback_url')), ParamCode)
                 /\ post.redirect_uri = persisted.callback_url
                 /\ post.client_id = persisted.client_id
                 /\ post.code_verifier = persisted.code_verifier
       /\ (Pending' # Pending /\ Pending' # None)
          => LET persisted == Unwrap(stored_value("AuthorisationBuilder",
                                                  Pending').value)
                 pairs == query_pairs(Unwrap(form'.auth_url).value)
             IN  /\ HashMapGet(pairs, <<"code_challenge">>)
                       = Some(sha256(persisted.code_verifier))
                 /\ HashMapGet(pairs, <<"redirect_uri">>)
                       = Some(persisted.callback_url)
                 /\ HashMapGet(pairs, <<"state">>)
                       = Some(persisted.session_state)]_vars

\* the exchange was posted for the pending authorization of the URL the form
\* shows, after an earlier new_url had persisted another one
C13_Witness ==
    /\ Called /\ Accepted
    /\ changes = 2
    /\ computations = <<>>
    /\ ShowsUrl
    /\ HashMapGet(query_pairs(Unwrap(form.auth_url).value), <<"code_challenge">>)
          = Some(sha256(LastPost.code_verifier))
    /\ LastPost.code_verifier = random(96, Bytes(96, 78))
    /\ LastPost.code = Code
    /\ LastPost.redirect_uri = Origin \o PathAuthorised

\* C17: code_verifier(bytes) succeeds for every length in 32..=96 and stores
\* the unpadded URL-safe base64 of the bytes; the code_challenge of the
\* authorise_url built next is the encoded SHA-256 of that stored string (the
\* encoded verifier, not the raw bytes).
C17_VerifierAcceptedAndHashedEncoded ==
    /\ [](Made("code_verifier") /\ Len(LastCall.arg) \in 32..96
            => /\ LastCall.ok
               /\ Encodes(LastCall.after.code_verifier, LastCall.arg))
    /\ [][(Made("code_verifier") /\ LastCall.ok /\ Call_authorise_url_resume)
               => LET url == Unwrap(Unwrap(builder_call').url)
                      challenge == HashMapGet(query_pairs(url), <<"code_challenge">>)
                  IN  /\ challenge = Some(sha256(base64(LastCall.arg)))
                      /\ challenge # Some(sha256(LastCall.arg))]_vars

\* authorise_url built after code_verifier() took 96 bytes
C17_Witness ==
    /\ Made("authorise_url")
    /\ ops = 2
    /\ LastCall.before.code_verifier = base64(Bytes(96, 255))
    /\ AuthParam(<<"code_challenge">>) = Some(sha256(base64(Bytes(96, 255))))

\* C18: code_verifier(bytes) with fewer than 32 or more than 96 bytes returns
\* Err and leaves every field of the builder as it was.
C18_VerifierOutOfRangeRejected ==
    (Made("code_verifier") /\ (Len(LastCall.arg) < 32 \/ Len(LastCall.arg) > 96))
        => /\ ~LastCall.ok
           /\ LastCall.after = LastCall.before

\* 97 bytes are refused after the callback was changed: nothing is lost
C18_Witness ==
    /\ Made("code_verifier")
    /\ Len(LastCall.arg) = 97
    /\ ~LastCall.ok
    /\ LastCall.after.callback_url = Origin \o PathAuth
    /\ LastCall.after.code_verifier = random(96, Bytes(96, 77))

\* C19: session_state(bytes) with no bytes returns Err and changes nothing;
\* with at least one byte it sets session_state to the unpadded URL-safe
\* base64 of the bytes and changes no other field.
C19_SessionStateSetOrRejected ==
    Made("session_state") =>
        IF LastCall.arg = <<>>
        THEN ~LastCall.ok /\ LastCall.after = LastCall.before
        ELSE /\ LastCall.ok
             /\ Encodes(LastCall.after.session_state, LastCall.arg)
             /\ \A field \in DOMAIN LastCall.before \ {"session_state"} :
                   LastCall.after[field] = LastCall.before[field]

\* one byte is taken: two characters, no padding
C19_Witness ==
    /\ Made("session_state")
    /\ LastCall.arg = <<255>>
    /\ LastCall.after.session_state = <<"_", "w">>
    /\ LastCall.before.session_state # <<"_", "w">>

\* C20: authorise_url gives https://accounts.spotify.com/authorize with the
\* query parameters client_id, response_type=code, redirect_uri, state,
\* code_challenge_method=S256, code_challenge in this order; `scope` comes
\* last, the scope names joined by one space in the order given, exactly when
\* the scope list is not empty.
C20_AuthoriseUrlRendering ==
    Made("authorise_url") =>
        LET url == Unwrap(LastCall.url)
            self == LastCall.before
            pairs == query_pairs(url)
            names == [i \in 1..Len(pairs) |-> pairs[i][1]]
            fixed == <<<<"client_id">>, <<"response_type">>, <<"redirect_uri">>,
                       <<"state">>, <<"code_challenge_method">>,
                       <<"code_challenge">>>>
        IN  /\ starts_with(url, ENDPOINT \o <<"/">> \o Segment_authorize \o <<"?">>)
            /\ IndexOf(url, "?") = Len(ENDPOINT) + Len(Segment_authorize) + 2
            /\ names = IF LastCall.arg = <<>> THEN fixed
                       ELSE Append(fixed, <<"scope">>)
            /\ pairs[1][2] = self.client_id
            /\ pairs[2][2] = <<"c", "o", "d", "e">>
            /\ pairs[3][2] = self.callback_url
            /\ pairs[4][2] = self.session_state
            /\ pairs[5][2] = <<"S", "2", "5", "6">>
            /\ LastCall.arg # <<>> =>
                  /\ Len(pairs[7][2]) = 2 * Len(LastCall.arg) - 1
                  /\ \A i \in 1..Len(pairs[7][2]) :
                        pairs[7][2][i] = IF i % 2 = 0 THEN " "
                                         ELSE ScopeNames[LastCall.arg[(i + 1) \div 2]]

\* two scopes: the seventh parameter holds them in the order given
C20_Witness ==
    /\ Made("authorise_url")
    /\ LastCall.arg = <<"UserReadEmail", "AppRemoteControl">>
    /\ AuthParam(<<"scope">>) = Some(<<"user-read-email", " ", "app-remote-control">>)

(***************************************************************************)
(* Properties of the token exchange and of the token responses             *)
(***************************************************************************)
\* the response has a 2xx status
Is2xx(outcome) == outcome.sent /\ outcome.status \in 200..299

\* C14: when the token request of AccessToken::new ends in a transport
\* failure, a non-2xx status or a body that cannot be parsed, AccessToken::new
\* returns Err(Request(..)) and no credential; the Authorised page makes a
\* Client only from a credential AccessToken::new returned.
C14_FailedExchangeGivesNoCredential ==
    /\ [][\A outcome \in Outcomes(TokenBodies) :
            (/\ AccessToken_new_response(outcome)
             /\ \/ ~Is2xx(outcome)
                \/ outcome.text = None
                \/ ~new_Response(Unwrap(outcome.text)).ok)
               => /\ ~Unwrap(new_result').ok
                  /\ Unwrap(new_result').error.variant = "Request"]_vars
    /\ [](client # None =>
            /\ new_pc = "updated"
            /\ Unwrap(new_result).ok
            /\ client = Client_new(Unwrap(new_result).value))

\* C15: the scope of the exchanged credential is the parsed scope of the
\* response when the response carries a scope string (an empty one, or one
\* that differs from what was asked for, included), and the scope stored in
\* the pending authorisation when the response has no scope or a null one.
C15_ExchangedScope ==
    [][\A outcome \in Outcomes(TokenBodies) :
          (AccessToken_new_response(outcome) /\ Unwrap(new_result').ok)
             => LET fields == BodyFields(outcome)
                    credential == Unwrap(new_result').value
                IN  IF Has(fields, "scope") /\ fields.scope.t # "null"
                    THEN /\ fields.scope.t = "str"
                         /\ credential.scope = visit_str(fields.scope.v).value
                    ELSE credential.scope = state.scope]_vars

\* the response carried an empty scope: the credential's scope is empty
\* although the pending authorisation had asked for one
C15_Witness ==
    /\ new_pc = "returned"
    /\ Unwrap(new_result).ok
    /\ Unwrap(new_result).value.scope = <<>>
    /\ state.scope = <<"UserReadEmail">>

\* C16: for the exchange and for the refresh alike, a 2xx token response with
\* a non-negative integer expires_in of n seconds is accepted and gives a
\* credential with expires_at = time of the response + n.  (Stated here for
\* the refresh.)
C16_IntegerExpiresInAccepted ==
    [][\A outcome \in Outcomes(TokenBodies) :
          (/\ Client_request_refreshed(outcome)
           /\ Is2xx(outcome)
           /\ outcome.text # None
           /\ Unwrap(outcome.text).json
           /\ IsStr(BodyFields(outcome), "access_token")
           /\ IsStr(BodyFields(outcome), "token_type")
           /\ BodyFields(outcome).token_type.v = "Bearer"
           /\ Has(BodyFields(outcome), "expires_in")
           /\ BodyFields(outcome).expires_in.t = "int"
           /\ BodyFields(outcome).expires_in.v >= 0)
             => /\ req_trace'[2] = "refreshed"
                /\ client'.token.expires_at =
                      from_secs(now + BodyFields(outcome).expires_in.v)]_vars

(***************************************************************************)
(* Properties of authorise_url as an operation on the builder              *)
(***************************************************************************)
\* C21: after authorise_url(scopes) the scope stored in the builder is the
\* scopes of that call, for every scopes value (the empty list included) and
\* whatever an earlier authorise_url had stored.
C21_AuthoriseUrlStoresScope ==
    Made("authorise_url") => LastCall.after.scope = LastCall.arg

\* C22: authorise_url called again with the same scopes returns the same URL
\* and leaves the builder as the first call left it; no call of it changes
\* client_id, callback_url, session_state or code_verifier.
C22_AuthoriseUrlIdempotent ==
    /\ [](Made("authorise_url") =>
            \A field \in {"client_id", "callback_url", "session_state",
                          "code_verifier"} :
               LastCall.after[field] = LastCall.before[field])
    /\ [][(/\ Made("authorise_url")
            /\ authorise_pc = Some(LastCall.arg)
            /\ Call_authorise_url_resume)
               => /\ Unwrap(builder_call').url = LastCall.url
                  /\ builder' = builder
                  /\ Unwrap(builder_call').after = LastCall.after]_vars

\* the second of two authorise_url calls with the same two scopes
C22_Witness ==
    /\ Made("authorise_url")
    /\ ops = 2
    /\ LastCall.arg = <<"UserReadEmail", "AppRemoteControl">>
    /\ LastCall.before.scope = LastCall.arg
    /\ LastCall.after = LastCall.before

(***************************************************************************)
(* Properties of Client::request as a whole                                *)
(***************************************************************************)
\* C23: whatever the token endpoint and the API answer, Client::request and
\* the refresh inside it finish with an Ok or Err value: no assertion fails.
C23_NoPanic == req_pc # "panicked"

(***************************************************************************)
(* Properties of the Authorised page and the pending authorization         *)
(***************************************************************************)

\* C27: every handling of a callback by the Authorised page leaves no pending
\* authorization in the session store, whether the handling succeeded or
\* failed, and hands exactly the stored builder to AccessToken::new; with no
\* pending authorization it gives NoAuthorizationState, validates nothing and
\* sends nothing to the token endpoint.
C27_PendingAuthorizationConsumedOnce ==
    [][(/\ new_pc \in {"none", "returned"}
        /\ UNCHANGED <<now, formVars>>
        /\ LET url == IF callback_url' # None THEN Unwrap(callback_url')
                      ELSE from_browser_location
           IN  \E browser \in FlowBrowserOutcomes :
                  Authorised_create(url, browser)) =>
            /\ Pending' = None
            /\ (Pending = None =>
                  /\ new_result' = Some(Err(NoAuthorizationState))
                  /\ new_pc' = "returned"
                  /\ token_posts' = token_posts
                  /\ callback_url' = callback_url)
            /\ (Pending # None =>
                  /\ Unwrap(Pending) = to_string("AuthorisationBuilder", state')
                  /\ callback_url' # None
                  /\ new_result' # Some(Err(NoAuthorizationState)))]_vars

(***************************************************************************)
(* Properties of the scope list's string form and of the stores            *)
(***************************************************************************)
LastStoreCall == Unwrap(store_call)
\* the scope string of a stored builder
StoredScope(item) == Unwrap(item).fields.scope
\* some segment between spaces is not the name of a scope
HasUnknownToken(value) ==
    LET parts == Split(value, " ") IN
    \E i \in 1..Len(parts) : parts[i] \notin {<<ScopeNames[sc]>> : sc \in Scopes}

\* C28: a stored scope list is written as its kebab-case names in order with
\* exactly one space between neighbours, and reading it gives the same list
\* back, repeats and the empty list included; the empty string reads as the
\* empty list.
C28_ScopeListRoundTrip ==
    /\ visit_str(<<>>) = Ok(<<>>)
    /\ (store_call # None /\ LastStoreCall.op = "insert" /\ LastStoreCall.result.ok) =>
          LET self == Unwrap(LastStoreCall.arg)
              n == Len(self.scope)
              written == StoredScope(Pending)
          IN  /\ Len(written) = IF n = 0 THEN 0 ELSE 2 * n - 1
              /\ \A i \in 1..n : written[2 * i - 1] = ScopeNames[self.scope[i]]
              /\ \A i \in 1..(n - 1) : written[2 * i] = " "
              /\ visit_str(written) = Ok(self.scope)
              /\ web_store_get("ok", store, "AuthorisationBuilder",
                               "AuthorisationBuilder").result = Ok(Some(self))
    /\ (store_call # None /\ LastStoreCall.op = "get"
          /\ \E self \in ScopedBuilders :
                Pending = Some(to_string("AuthorisationBuilder", self))) =>
          Pending = Some(to_string("AuthorisationBuilder",
                                   Unwrap(LastStoreCall.result.value)))

\* a list with a repeated scope was stored and read back
C28_Witness ==
    /\ store_call # None
    /\ LastStoreCall.op = "get"
    /\ LastStoreCall.result.ok
    /\ LastStoreCall.result.value # None
    /\ Unwrap(LastStoreCall.result.value).scope = <<"UserReadEmail", "UserReadEmail">>

\* C29: reading a stored scope string fails as a whole, with no list, when any
\* of its space-separated segments is not the name of a scope; the empty
\* segment of a leading, trailing or doubled space is such a segment.
C29_UnknownScopeTokenFailsWhole ==
    /\ \A value \in RawScopes \cup {String_from_iter(scope) : scope \in ScopeLists} :
          (value # <<>> /\ HasUnknownToken(value)) => visit_str(value) = Err("invalid_value")
    /\ (store_call # None /\ LastStoreCall.op = "get"
          /\ Pending # None /\ StoredScope(Pending) # <<>>
          /\ HasUnknownToken(StoredScope(Pending))) =>
          LastStoreCall.result = Err(WebStoreError_Serialisation)

\* a scope string with a trailing space was read
C29_Witness ==
    /\ store_call # None
    /\ LastStoreCall.op = "get"
    /\ Pending # None
    /\ StoredScope(Pending) = <<"user-read-email", " ">>
    /\ ~LastStoreCall.result.ok

\* C30: a web store used with one value type answers like a map: insert gives
\* the previous value of the key, get gives the value last inserted and
\* changes nothing, remove gives the stored value and leaves none, and no
\* call touches another key.
C30_StoreBehavesLikeMap ==
    /\ [](store_call # None =>
            /\ LastStoreCall.result = LastStoreCall.expected
            /\ \A key \in Keys :
                  web_store_get("ok", store, ValueType, key).result
                     = Ok(store_map[key])
            /\ LastStoreCall.op = "remove" =>
                  web_store_remove("ok", store, ValueType,
                                   LastStoreCall.key).result = Ok(None))
    /\ [][/\ \A key \in TestKeys :
                Store_get(FALSE, "ok", ValueType, key) => store' = store
          /\ \A key \in Keys :
                (store_call' # None /\ Unwrap(store_call').key # key) =>
                   store'[key_to_string(key)] = store[key_to_string(key)]]_vars

(***************************************************************************)
(* Properties of the serialized credential                                 *)
(***************************************************************************)
\* the credentials of a Client::request call: held, held at the call, moved out
Credentials ==
    {client.token}
    \cup (IF req_prior # None THEN {Prior} ELSE {})
    \cup (IF req_self # None THEN {Unwrap(req_self)} ELSE {})
\* the strings in the text of a serialized credential: the words of the scope
\* string and the two strings of the refresh token
Strings(json) ==
    {json.fields.scope.v[i] : i \in 1..Len(json.fields.scope.v)}
    \cup {json.fields.refresh_token.fields.token.v,
          json.fields.refresh_token.fields.client_id.v}

\* C26: the serialized credential has the scope and the refresh token and
\* nothing else: it does not change with the access token or the expiry, two
\* credentials that differ only in those serialize alike, and neither value
\* is in the text.
C26_AccessTokenNotSerialized ==
    \A t \in Credentials :
       /\ \A token \in ResponseAccessTokens \cup {"at1"},
             secs \in 0..(MaxTime + 3), nanos \in {0, 5} :
             serialize_AccessToken([t EXCEPT !.token = token,
                                             !.expires_at = Duration_new(secs, nanos)])
                = serialize_AccessToken(t)
       /\ \A other \in Credentials :
             (other.scope = t.scope /\ other.refresh_token = t.refresh_token)
                => serialize_AccessToken(other) = serialize_AccessToken(t)
       /\ DOMAIN serialize_AccessToken(t).fields = {"scope", "refresh_token"}
       /\ DOMAIN serialize_AccessToken(t).fields.refresh_token.fields
             = {"token", "client_id"}
       /\ serialize_AccessToken(t).fields.scope.t = "str"
       /\ t.token \notin {t.refresh_token.token, t.refresh_token.client_id}
             => t.token \notin Strings(serialize_AccessToken(t))

\* a refreshed credential beside the one it replaced: another access token and
\* expiry, the same scope and refresh token
C26_Witness ==
    /\ req_prior # None
    /\ Prior.token = "at1"
    /\ client.token.token = "at2"
    /\ client.token.expires_at # Prior.expires_at
    /\ client.token.scope = Prior.scope
    /\ client.token.refresh_token = Prior.refresh_token
    /\ serialize_AccessToken(client.token) = serialize_AccessToken(Prior)

(***************************************************************************)
(* Properties of what one call sends, and in which order                   *)
(***************************************************************************)
\* C24: nothing is sent twice: a step sends at most one POST to the token
\* endpoint and at most one API request; a POST is sent only where
\* AccessToken::new goes on to its one token request or where a
\* Client::request call starts with a refresh, and an API request only where
\* a Client::request call starts or where its one refresh has just completed.
C24_NoRetries ==
    /\ [](Len(token_posts) <= 1 + calls /\ Len(api_requests) <= calls)
    /\ [][/\ Len(token_posts') <= Len(token_posts) + 1
          /\ Len(api_requests') <= Len(api_requests) + 1
          /\ ~(token_posts' # token_posts /\ api_requests' # api_requests)
          /\ token_posts' # token_posts =>
                \/ /\ new_pc \in {"none", "returned"}
                   /\ new_pc' = "request_await"
                   /\ calls' = calls
                \/ calls' = calls + 1 /\ req_pc' = "refresh_await" /\ new_pc' = new_pc
          /\ (req_pc' = "refresh_await" /\ req_pc # "refresh_await") =>
                /\ calls' = calls + 1
                /\ Len(token_posts') = Len(token_posts) + 1
          /\ api_requests' # api_requests =>
                /\ req_pc' = "request_await"
                /\ \/ calls' = calls + 1
                   \/ calls' = calls /\ req_pc = "refresh_await"]_vars

\* a Client::request call on the exchanged credential refreshed it and sent
\* the API request: two POSTs in all, one by AccessToken::new
C24_Witness ==
    /\ new_pc = "updated"
    /\ calls = 1
    /\ Len(token_posts) = 2
    /\ Len(api_requests) = 1
    /\ req_pc = "returned"
    /\ Did(<<"refresh_sent", "refreshed", "request_sent", "response">>)

\* C25: the steps of Client::request run one after another on a Client: a
\* refresh is started only when no call of the Client is awaiting anything, an
\* API request is sent only when no refresh is left awaiting, and a call does
\* check, refresh, send in this order.
C25_OneClientSequential ==
    /\ [](req_trace \in {<<>>,
                         <<"request_sent">>,
                         <<"request_sent", "response">>,
                         <<"request_sent", "dropped">>,
                         <<"refresh_sent">>,
                         <<"refresh_sent", "dropped">>,
                         <<"refresh_sent", "refresh_failed">>,
                         <<"refresh_sent", "refreshed", "assert_failed">>,
                         <<"refresh_sent", "refreshed", "request_sent">>,
                         <<"refresh_sent", "refreshed", "request_sent", "response">>,
                         <<"refresh_sent", "refreshed", "request_sent", "dropped">>})
    /\ [](req_pc = "refresh_await" <=> req_self # None)
    /\ [][/\ token_posts' # token_posts =>
                /\ req_pc \in Idle
                /\ req_pc' = "refresh_await"
          /\ api_requests' # api_requests =>
                /\ req_pc \in Idle \cup {"refresh_await"}
                /\ req_pc' = "request_await"
                /\ req_self' = None]_vars

\* a call that refreshed and then sent the API request, after an earlier call
C25_Witness ==
    /\ calls = 2
    /\ Did(<<"refresh_sent", "refreshed", "request_sent">>)
    /\ req_pc = "request_await"

(***************************************************************************)
(* Properties of utils::request                                            *)
(***************************************************************************)
\* C32: utils::request gives Error::Reqwest when nothing was sent back,
\* Error::Status with the status and the optional body for every status that
\* is not 2xx, Error::Body with the raw body for a 2xx body that does not
\* deserialize, and Ok only for a 2xx response with a deserializable body.
C32_RequestClassifiesOutcomes ==
    [][\A outcome \in Outcomes(ApiBodies) :
         Client_request_response(outcome) =>
            LET result == Unwrap(req_result') IN
            /\ ~outcome.sent => result = Err(ReqwestError)
            /\ (outcome.sent /\ ~Is2xx(outcome)) =>
                  result = Err(StatusError(outcome.status, outcome.text))
            /\ (Is2xx(outcome) /\ outcome.text # None
                  /\ ~api_Response(Unwrap(outcome.text)).ok) =>
                  result = Err(JSONError(Unwrap(outcome.text)))
            /\ result.ok =>
                  /\ Is2xx(outcome)
                  /\ outcome.text # None
                  /\ api_Response(Unwrap(outcome.text)).ok]_vars

(***************************************************************************)
(* Properties of the web stores under errors, and against the HashMap store *)
(***************************************************************************)
\* C31: a call on a web store that returns an error leaves the Storage as
\* it was: no key is added, overwritten or removed, and a get with either
\* value type afterwards returns what it returned before the call
C31_StoreErrorsLeaveContents ==
    [][(/\ store_call' # None
        /\ Unwrap(store_call').op \in {"insert", "get", "remove"}
        /\ ~Unwrap(store_call').result.ok)
       => /\ store' = store
          /\ \A T \in StoreTypes, key \in TestKeys :
               web_store_get("ok", store', T, key).result
                  = web_store_get("ok", store, T, key).result]_vars

\* a remove with the wrong value type has returned Serialisation and the
\* entry is still there, readable with the type it was written with
C31_Witness ==
    /\ store_call # None
    /\ LastStoreCall.op = "remove"
    /\ LastStoreCall.browser = "ok"
    /\ LastStoreCall.T = "String"
    /\ ~LastStoreCall.result.ok
    /\ LastStoreCall.result.error = WebStoreError_Serialisation
    /\ store[key_to_string(LastStoreCall.key)] # None
    /\ web_store_get("ok", store, "AuthorisationBuilder", LastStoreCall.key).result.ok

\* C38: the HashMap store and a web store, given the same calls, return the
\* same result (an error where the other returns an error) and hold the same
\* entries afterwards
C38_HashMapMatchesWebStore ==
    /\ hashmap = store
    /\ (store_call # None /\ LastStoreCall.hash_result # None)
       => LET web == LastStoreCall.result
              hash == Unwrap(LastStoreCall.hash_result)
          IN  /\ web.ok = hash.ok
              /\ web.ok => web.value = hash.value

(***************************************************************************)
(* Properties of the order of validation and the token request             *)
(***************************************************************************)
\* C35: a request goes to the token endpoint only in a handling of the
\* callback in which the pending authorization was taken from the session
\* store and the callback URL passed all five checks; a handling that ends in
\* a CallbackUrlError, a store error or NoAuthorizationState sends none, and
\* none is sent after it returned
C35_TokenRequestOnlyAfterValidation ==
    [][/\ token_posts' # token_posts
          => /\ new_pc \in {"none", "returned"}
             /\ new_pc' = "request_await"
             /\ Pending # None
             /\ stored_value("AuthorisationBuilder", Pending).ok
             /\ state' = Unwrap(stored_value("AuthorisationBuilder", Pending).value)
             /\ new_callback_checks(state', Unwrap(callback_url')).ok
             /\ token_posts' =
                   Append(token_posts,
                          new_form(state', new_callback_checks(
                                               state', Unwrap(callback_url')).value))
       /\ (/\ new_pc' = "returned"
           /\ new_result' # None
           /\ ~Unwrap(new_result').ok
           /\ Unwrap(new_result').error.variant
                 \in {"CallbackUrl", "Store", "NoAuthorizationState"})
          => token_posts' = token_posts]_vars

\* a callback was rejected with each of the five errors, a handling found no
\* pending authorization, and one met a store error, all without a request
C35_Witness ==
    /\ new_pc = "returned"
    /\ new_result # None
    /\ ~Unwrap(new_result).ok
    /\ Unwrap(new_result).error.variant = "CallbackUrl"
    /\ Unwrap(new_result).error.error.variant = "UrlMismatch"
    /\ token_posts = <<>>

(***************************************************************************)
(* Properties of Client::request with a credential that is still valid     *)
(***************************************************************************)
\* C36: a Client::request call made while the held credential stays valid
\* for longer than the expected duration sends nothing to the token
\* endpoint and leaves the credential as it is; the API request goes out with
\* that credential's access token, and Client::request returns what
\* utils::request made of the answer
C36_ValidCredentialNoRefresh ==
    [][/\ \A duration \in Durations :
            (/\ Client_request(duration)
             /\ lt(add(Instant_now, duration), client.token.expires_at))
            => /\ token_posts' = token_posts
               /\ client' = client
               /\ req_pc' = "request_await"
               /\ Len(api_requests') = Len(api_requests) + 1
               /\ api_requests'[Len(api_requests')].req
                     = [bearer |-> client.token.token]
       /\ \A outcome \in Outcomes(ApiBodies) :
            (/\ Client_request_response(outcome)
             /\ req_trace = <<"request_sent">>)
            => /\ token_posts' = token_posts
               /\ client' = client
               /\ client.token = Prior
               /\ api_requests' = api_requests
               /\ req_result' = Some(request(outcome, "R"))]_vars

\* a call with a valid credential has returned Ok: no token request was made,
\* the credential is the one held before and its token went out as the bearer
C36_Witness ==
    /\ req_pc = "returned"
    /\ Did(<<"request_sent", "response">>)
    /\ Unwrap(req_result).ok
    /\ token_posts = <<>>
    /\ client.token = Prior
    /\ LastRequest.req.bearer = "at1"

(***************************************************************************)
(* Properties of the delayed functions                                     *)
(***************************************************************************)
Handle == Unwrap(delayed)

\* C33: a stop() called while is_executed() is Some(false) returns true and
\* the handle is stopped from then on; the function of a stopped handle never
\* runs (is_executed() stays Some(false), call count 0) whatever time
\* passes, and a further stop() returns true again
C33_StoppedNeverExecutes ==
    /\ [](/\ (stop_call # None /\ Unwrap(stop_call).executed = Some(FALSE))
             => /\ Unwrap(stop_call).returned
                /\ is_stopped(Handle)
          /\ (delayed # None /\ Handle.tracked /\ is_stopped(Handle))
             => /\ is_executed(Handle) = Some(FALSE)
                /\ fn_calls = 0)
    /\ [][(delayed # None /\ Handle.tracked /\ is_stopped(Handle))
          => /\ is_stopped(Unwrap(delayed'))
             /\ Tracked_stop => Unwrap(stop_call').returned]_vars

\* C34: a stop() called while is_executed() is Some(true) or None returns
\* false and leaves the handle not stopped; a handle is never both stopped
\* and executed
C34_StopAfterExecutionRefused ==
    /\ (stop_call # None /\ Unwrap(stop_call).executed \in {Some(TRUE), None}
          /\ Handle.tracked)
       => /\ ~Unwrap(stop_call).returned
          /\ ~is_stopped(Handle)
    /\ (delayed # None /\ Handle.tracked)
       => ~(is_stopped(Handle) /\ is_executed(Handle) = Some(TRUE))

\* C39: the function of a handle on which stop() is never called has not run
\* while its timeout is pending, runs no earlier than the delay it was created
\* with, runs once and not again, and with fair scheduling does run; a
\* TrackedDelayedFn then reports is_executed() = Some(true) and
\* is_stopped() = false
C39_UnstoppedRunsExactlyOnce ==
    /\ []((timer # None /\ Unwrap(timer).status = "pending") => fn_calls = 0)
    /\ [][fn_calls' # fn_calls
          => /\ fn_calls = 0
             /\ fn_calls' = 1
             /\ now >= Unwrap(timer).due]_vars
    /\ []((stop_call = None /\ fn_calls = 1 /\ Handle.tracked)
          => /\ is_executed(Handle) = Some(TRUE)
             /\ ~is_stopped(Handle))
    /\ (delayed # None) ~> (stop_call # None \/ fn_calls = 1)

\* a tracked function created with a delay has run once the delay passed,
\* with no stop() made
C39_Witness ==
    /\ delayed # None
    /\ Handle.tracked
    /\ stop_call = None
    /\ Unwrap(timer).due > 0
    /\ now >= Unwrap(timer).due
    /\ fn_calls = 1
    /\ is_executed(Handle) = Some(TRUE)

(***************************************************************************)
(* Properties of the AuthorisationForm                                     *)
(***************************************************************************)
\* C37: whenever the form shows an authorisation URL with the submit button
\* enabled, the pending authorization in the session store is the builder
\* that URL was made from (its session_state is the URL's `state`), and the
\* form is marked loading whenever a new_url future is in flight
C37_FormMatchesPendingAuthorization ==
    /\ ShowsUrl
       => LET pending == stored_value("AuthorisationBuilder", Pending)
              url == Unwrap(form.auth_url).value
          IN  /\ pending.ok
              /\ pending.value # None
              /\ HashMapGet(query_pairs(url), <<"state">>)
                    = Some(Unwrap(pending.value).session_state)
    /\ computations # <<>> => form.loading

====
